---- MODULE Spec2Model ----
(***************************************************************************)
(* Model of the 0xDomainSnapshot backend: the two-layer sync lock           *)
(* (scheduler/lock.go), the scheduler's runCollector and the manual         *)
(* trigger handler (scheduler/scheduler.go, api/handlers.go), and the       *)
(* transactional reconciler (merger/merger.go).                             *)
(***************************************************************************)
EXTENDS Integers, Sequences, FiniteSets, TLC

(***************************************************************************)
(* Bounds                                                                   *)
(***************************************************************************)
MaxTasks == 2    \* goroutine / request slots per process
MaxDay == 2      \* calendar days the clock runs through
MaxBatch == 2    \* longest batch handed to a merge
MaxHour == 3     \* hours the wall clock runs through
MaxNames == 3    \* longest domain list the registrar holds
MaxConfigRetries == 5  \* largest configured cfg.MaxRetries (5 is the default)
MaxRecords == 2  \* most DNS records a zone holds upstream

\* scheduler.go: s.lock.CleanupStale(ctx, 2*time.Hour)
MaxStaleAge == 2

(***************************************************************************)
(* Universe                                                                 *)
(***************************************************************************)
Procs == {"p1", "p2"}
Collectors == {"godaddy_dns", "cloudflare_dns"}
UnknownCollector == "nope"
TaskIds == 1..MaxTasks
Tasks == Procs \X TaskIds
NoErr == "nil"

VARIABLES
    sync_status,   \* table sync_status: set of rows
    mutex,         \* SyncLock.locks: [process][collector] -> locked?
    task,          \* per slot: handler and goroutine position and locals
    sched,         \* per process: the scheduler is "started" or the process "crashed"
    day,           \* current calendar date (time.Now().Format("2006-01-02"))
    now,           \* wall clock in hours (time.Now(), NOW())
    domains,       \* committed table domains
    dns_records,   \* committed table dns_records
    tx,            \* the merge call in progress (transaction + locals)
    client,        \* the Client.DoWithRetry call in progress
    listing,       \* the GoDaddyCollector.Collect call that lists domains
    export         \* the ExportService.ExportAll call and the files it wrote

lockVars == <<sync_status, mutex, task, sched>>
mergeVars == <<day, now, domains, dns_records, tx>>
ioVars == <<client, listing, export>>
vars == <<sync_status, mutex, task, sched, day, now, domains, dns_records, tx,
          client, listing, export>>

(***************************************************************************)
(* Sync lock, scheduler, trigger handler                                    *)
(***************************************************************************)
NoExpiry == 0
NoStats == [Added |-> 0, Updated |-> 0, Removed |-> 0]
EmptyDB == [domains |-> {}, dns_records |-> {}]

\* collector.CollectorResult before Collect filled it; quotaAt is the index of
\* the domain whose record fetch hit the quota (0: none did)
NoResult == [Domains |-> <<>>, DNSRecords |-> <<>>, quotaAt |-> 0]

\* the frame of SyncService.RunCollector while no call is in progress
NoRun == [entered |-> FALSE]

\* a slot: position of the handler (hpc) and of the goroutine (pc), the
\* locals of runCollector (syncErr; released: outcome of the UPDATE of
\* Release; exportErr: ExportAll returned an error) and, in run, the frame of
\* RunCollector (up: the upstream Collect met, result, stats, pre: the
\* inventory when the call started)
IdleTask == [hpc |-> "none", pc |-> "idle", coll |-> UnknownCollector,
             trigger |-> "none", ctxDone |-> FALSE, resp |-> 0,
             syncErr |-> NoErr, released |-> "no", exportErr |-> FALSE,
             run |-> NoRun]

\* runCollector returns: its locals are gone
Return(rec) == [rec EXCEPT !.pc = "done", !.run = NoRun]

\* the caller of a merge that is no slot: context.Background()
NoTask == <<"none", 0>>

\* the elements of a slice
Range(seq) == {seq[i] : i \in 1..Len(seq)}

\* no merge call in progress
NoTx == [pc |-> "none", fn |-> "none", owner |-> NoTask,
         source |-> "none", batch |-> <<>>, i |-> 0,
         today |-> 0, view |-> [domains |-> {}, dns_records |-> {}],
         stats |-> [Added |-> 0, Updated |-> 0, Removed |-> 0], seenDomains |-> {},
         err |-> NoErr, pre |-> [domains |-> {}, dns_records |-> {}]]

\* no DoWithRetry, Collect or ExportAll call is in progress
NoCall == [pc |-> "idle"]

InitLock ==
    /\ sync_status = {}
    /\ mutex = [p \in Procs |-> [c \in Collectors |-> FALSE]]
    /\ task = [t \in Tasks |-> IdleTask]
    /\ sched = [p \in Procs |-> [pc |-> "started", cleanupErr |-> FALSE]]

\* rows with status = 'running' of any collector
RunningRows_AnyCollector(c) == {r \in sync_status : r.status = "running"}

\* rows of sync_status with status = 'running' for a collector
RunningRows(c) == {r \in sync_status : r.collector_name = c /\ r.status = "running"}

\* outcomes of one database statement issued with the task's context:
\* a done context always fails it, otherwise it succeeds or the store errors
DBOutcomes(t) == IF task[t].ctxDone THEN {FALSE} ELSE {TRUE, FALSE}

\* outcomes of one statement of the merge in progress: it runs with the
\* context of the caller of the merge
TxOutcomes == IF tx.owner \in Tasks THEN DBOutcomes(tx.owner) ELSE {TRUE, FALSE}

\* slot t is unused and every lower slot of its process is in use (slots are
\* interchangeable: they are taken in order)
FreeSlot(t) ==
    /\ task[t].pc = "idle" /\ task[t].hpc = "none"
    /\ \A u \in Tasks : (u[1] = t[1] /\ u[2] < t[2]) => task[u] # IdleTask

\* cron entry fires: s.runCollector(context.Background(), c, "scheduled")
CronTick(t, c) ==
    /\ FreeSlot(t) /\ sched[t[1]].pc = "started"
    /\ task' = [task EXCEPT ![t] = [@ EXCEPT !.pc = "tryacquire", !.coll = c,
                                             !.trigger = "scheduled"]]
    /\ UNCHANGED <<sync_status, mutex, sched, mergeVars, ioVars>>

\* POST /sync/trigger/{collector} arrives
handleTriggerSync_Receive(t, c) ==
    /\ FreeSlot(t) /\ sched[t[1]].pc = "started"
    /\ task' = [task EXCEPT ![t] = [@ EXCEPT !.hpc = "check", !.coll = c]]
    /\ UNCHANGED <<sync_status, mutex, sched, mergeVars, ioVars>>

\* SELECT COUNT( * ) ... status = 'running'
IsRunning(c) == Cardinality(RunningRows(c)) > 0

\* handler: IsCollectorRunning, then 500 / 409 / go on
handleTriggerSync_IsRunning(t) ==
    /\ task[t].hpc = "check"
    /\ \E ok \in DBOutcomes(t) :
         task' = [task EXCEPT ![t] =
            IF ~ok THEN [@ EXCEPT !.hpc = "returned", !.resp = 500, !.ctxDone = TRUE]
            ELSE IF IsRunning(task[t].coll)
                 THEN [@ EXCEPT !.hpc = "returned", !.resp = 409, !.ctxDone = TRUE]
                 ELSE [@ EXCEPT !.hpc = "trigger"]]
    /\ UNCHANGED <<sync_status, mutex, sched, mergeVars, ioVars>>

\* handler: TriggerSync (registry lookup, go runCollector(ctx, c, "manual")),
\* then the 202 (or 400) response is written
TriggerSync(t) ==
    /\ task[t].hpc = "trigger"
    /\ task' = [task EXCEPT ![t] =
          IF task[t].coll \notin Collectors
          THEN [@ EXCEPT !.hpc = "returned", !.resp = 400, !.ctxDone = TRUE]
          ELSE [@ EXCEPT !.hpc = "respond", !.resp = 202,
                         !.pc = "tryacquire", !.trigger = "manual"]]
    /\ UNCHANGED <<sync_status, mutex, sched, mergeVars, ioVars>>

\* handler returns: net/http cancels the request context
handleTriggerSync_Return(t) ==
    /\ task[t].hpc = "respond"
    /\ task' = [task EXCEPT ![t] = [@ EXCEPT !.hpc = "returned", !.ctxDone = TRUE]]
    /\ UNCHANGED <<sync_status, mutex, sched, mergeVars, ioVars>>

\* TryAcquire that goes on to the database layer whatever TryLock returned
TryAcquire_TryLock_Ignored(t) ==
    /\ task[t].pc = "tryacquire"
    /\ mutex' = [mutex EXCEPT ![t[1]][task[t].coll] = TRUE]
    /\ task' = [task EXCEPT ![t] = [@ EXCEPT !.pc = "select"]]
    /\ UNCHANGED <<sync_status, sched, mergeVars, ioVars>>

\* TryAcquire that waits for the mutex: lock.Lock()
TryAcquire_Lock(t) ==
    /\ task[t].pc = "tryacquire"
    /\ ~mutex[t[1]][task[t].coll]
    /\ mutex' = [mutex EXCEPT ![t[1]][task[t].coll] = TRUE]
    /\ task' = [task EXCEPT ![t] = [@ EXCEPT !.pc = "select"]]
    /\ UNCHANGED <<sync_status, sched, mergeVars, ioVars>>

\* TryAcquire, in-memory layer: lock.TryLock()
TryAcquire_TryLock(t) ==
    /\ task[t].pc = "tryacquire"
    /\ IF mutex[t[1]][task[t].coll]
       THEN /\ task' = [task EXCEPT ![t] = [@ EXCEPT !.pc = "done"]]
            /\ UNCHANGED mutex
       ELSE /\ mutex' = [mutex EXCEPT ![t[1]][task[t].coll] = TRUE]
            /\ task' = [task EXCEPT ![t] = [@ EXCEPT !.pc = "select"]]
    /\ UNCHANGED <<sync_status, sched, mergeVars, ioVars>>

\* TryAcquire, database layer: SELECT id ... status = 'running'
TryAcquire_Select(t) ==
    /\ task[t].pc = "select"
    /\ \E ok \in DBOutcomes(t) :
         IF ok /\ RunningRows(task[t].coll) = {}
         THEN /\ task' = [task EXCEPT ![t] = [@ EXCEPT !.pc = "insert"]]
              /\ UNCHANGED mutex
         ELSE /\ mutex' = [mutex EXCEPT ![t[1]][task[t].coll] = FALSE]
              /\ task' = [task EXCEPT ![t] = [@ EXCEPT !.pc = "done"]]
    /\ UNCHANGED <<sync_status, sched, mergeVars, ioVars>>

\* the row INSERT ... VALUES ($1, $2, 'running', $3, NOW()) RETURNING id adds;
\* the id is fresh: the slot that inserts it names it
NewSyncRow(t) == [id |-> t, collector_name |-> task[t].coll, status |-> "running",
                  trigger_type |-> task[t].trigger, started_at |-> now,
                  error_message |-> NoErr]

\* schema installed by RunMigrations (migrationSQL): sync_status carries no
\* unique index on collector_name WHERE status = 'running'
UniqueRunningIndex == FALSE

\* TryAcquire whose INSERT failure returns without lock.Unlock()
TryAcquire_Insert_KeepsLock(t) ==
    /\ task[t].pc = "insert"
    /\ \E ok \in DBOutcomes(t) :
         IF ok /\ ~(UniqueRunningIndex /\ RunningRows(task[t].coll) # {})
         THEN /\ sync_status' = sync_status \cup {NewSyncRow(t)}
              /\ task' = [task EXCEPT ![t] = [@ EXCEPT !.pc = "run"]]
         ELSE /\ task' = [task EXCEPT ![t] = [@ EXCEPT !.pc = "done"]]
              /\ UNCHANGED sync_status
    /\ UNCHANGED <<mutex, sched, mergeVars, ioVars>>

\* TryAcquire, database layer: INSERT INTO sync_status
TryAcquire_Insert(t) ==
    /\ task[t].pc = "insert"
    /\ \E ok \in DBOutcomes(t) :
         IF ok /\ ~(UniqueRunningIndex /\ RunningRows(task[t].coll) # {})
         THEN /\ sync_status' = sync_status \cup {NewSyncRow(t)}
              /\ task' = [task EXCEPT ![t] = [@ EXCEPT !.pc = "run"]]
              /\ UNCHANGED mutex
         ELSE /\ mutex' = [mutex EXCEPT ![t[1]][task[t].coll] = FALSE]
              /\ task' = [task EXCEPT ![t] = [@ EXCEPT !.pc = "done"]]
              /\ UNCHANGED sync_status
    /\ UNCHANGED <<sched, mergeVars, ioVars>>

\* syncSvc.RunCollector against an upstream that holds nothing: Collect
\* fails, or returns an empty result and no merge is called
RunCollector_NoData(t) ==
    /\ task[t].pc = "run"
    /\ \E e \in (IF task[t].ctxDone THEN {"collector failed"}
                                    ELSE {NoErr, "collector failed"}) :
         task' = [task EXCEPT ![t] = [@ EXCEPT !.pc = "release", !.syncErr = e]]
    /\ UNCHANGED <<sync_status, mutex, sched, mergeVars, ioVars>>

\* syncSvc.RunCollector of the Cloudflare collector: verifyToken fails (bad
\* token, failed request, done context), Collect returns a nil-stats error
RunCollector_VerifyFailed(t) ==
    /\ task[t].pc = "run"
    /\ task[t].coll = "cloudflare_dns"
    /\ task' = [task EXCEPT ![t] =
                  [@ EXCEPT !.pc = "release", !.syncErr = "token verification failed"]]
    /\ UNCHANGED <<sync_status, mutex, sched, mergeVars, ioVars>>

\* the UPDATE of Release: WHERE id = syncID
ReleaseUpdate(rows, id, err) ==
    {IF r.id = id
     THEN [r EXCEPT !.status = IF err = NoErr THEN "completed" ELSE "failed",
                    !.error_message = err]
     ELSE r : r \in rows}

\* Release after which runCollector goes on to the export whatever syncErr is
Release_ExportAlways(t) ==
    /\ task[t].pc = "release"
    /\ \E ok \in DBOutcomes(t) :
         /\ sync_status' = IF ok THEN ReleaseUpdate(sync_status, t, task[t].syncErr)
                                 ELSE sync_status
         /\ task' = [task EXCEPT ![t] =
                      [@ EXCEPT !.pc = "export", !.released = IF ok THEN "ok" ELSE "err"]]
    /\ mutex' = [mutex EXCEPT ![t[1]][task[t].coll] = FALSE]
    /\ UNCHANGED <<sched, mergeVars, ioVars>>

\* Release: UPDATE sync_status ..., deferred lock.Unlock(); then
\* `if syncErr != nil { return }`
Release(t) ==
    /\ task[t].pc = "release"
    /\ \E ok \in DBOutcomes(t) :
         /\ sync_status' = IF ok THEN ReleaseUpdate(sync_status, t, task[t].syncErr)
                                 ELSE sync_status
         /\ task' = [task EXCEPT ![t] =
                      IF task[t].syncErr = NoErr
                      THEN [@ EXCEPT !.pc = "export", !.released = IF ok THEN "ok" ELSE "err"]
                      ELSE Return([@ EXCEPT !.released = IF ok THEN "ok" ELSE "err"])]
    /\ mutex' = [mutex EXCEPT ![t[1]][task[t].coll] = FALSE]
    /\ UNCHANGED <<sched, mergeVars, ioVars>>

\* runCollector tail: exportSvc.ExportAll(ctx); its failure is only logged
ExportAll(t) ==
    /\ task[t].pc = "export"
    /\ \E ok \in DBOutcomes(t) :
         task' = [task EXCEPT ![t] = Return([@ EXCEPT !.exportErr = ~ok])]
    /\ UNCHANGED <<sync_status, mutex, sched, mergeVars, ioVars>>

\* the steps of the goroutine that runs runCollector
runCollector(t) ==
    \/ TryAcquire_TryLock(t)
    \/ TryAcquire_Select(t)
    \/ TryAcquire_Insert(t)
    \/ RunCollector_NoData(t)
    \/ Release(t)
    \/ ExportAll(t)

\* the steps of the handler of POST /sync/trigger/{collector}
handleTriggerSync(t) ==
    \/ \E c \in Collectors \cup {UnknownCollector} : handleTriggerSync_Receive(t, c)
    \/ handleTriggerSync_IsRunning(t)
    \/ TriggerSync(t)
    \/ handleTriggerSync_Return(t)


(***************************************************************************)
(* Reconciler (merger.go)                                                   *)
(***************************************************************************)
Sources == {"GoDaddy", "Cloudflare"}
\* collector.Domain values a batch is drawn from (Domain, ExpiryDate)
DomainUniverse(source) ==
    IF source = "GoDaddy"
    THEN {[Domain |-> "a.com", ExpiryDate |-> NoExpiry],
          [Domain |-> "a.com", ExpiryDate |-> 9],
          [Domain |-> "b.com", ExpiryDate |-> NoExpiry]}
    ELSE {[Domain |-> "a.com", ExpiryDate |-> NoExpiry]}

\* collector.DNSRecord values a batch is drawn from
DNSUniverse ==
    {[Domain |-> "a.com", Subdomain |-> "", RecordType |-> "A", Data |-> "1.2.3.4", TTL |-> 300],
     [Domain |-> "a.com", Subdomain |-> "www", RecordType |-> "A", Data |-> "1.2.3.4", TTL |-> 300],
     [Domain |-> "b.com", Subdomain |-> "", RecordType |-> "A", Data |-> "1.2.3.4", TTL |-> 300]}

\* non-empty slices of at most MaxBatch elements (RunCollector merges only
\* when len > 0)
Batches(U) == UNION {[1..n -> U] : n \in 1..MaxBatch}

\* uuid_generate_v4(): an id no row of the table carries
NewId(rows) == CHOOSE n \in 1..(Cardinality(rows) + 1) : \A r \in rows : r.id # n

\* lookup by name alone
SelectDomain_AnySource(rows, name, source) ==
    {r.id : r \in {x \in rows : x.domain = name}}

\* SELECT id FROM domains WHERE domain = $1 AND registrar = $2
SelectDomain(rows, name, source) ==
    {r.id : r \in {x \in rows : x.domain = name /\ x.registrar = source}}

\* UNIQUE(domain, registrar)
DomainUnique(rows, name, source) ==
    \A r \in rows : ~(r.domain = name /\ r.registrar = source)

\* INSERT that binds the expiry date ($3) where last_seen belongs
InsertDomain_LastSeenExpiry(rows, d, source, today) ==
    rows \cup {[id |-> NewId(rows), domain |-> d.Domain, registrar |-> source,
                status |-> "active", expiry_date |-> d.ExpiryDate,
                discovery_date |-> today, last_seen |-> d.ExpiryDate]}

\* INSERT INTO domains (...) VALUES ($1, $2, 'active', $3, $4, $4, $5)
InsertDomain(rows, d, source, today) ==
    rows \cup {[id |-> NewId(rows), domain |-> d.Domain, registrar |-> source,
                status |-> "active", expiry_date |-> d.ExpiryDate,
                discovery_date |-> today, last_seen |-> today]}

\* UPDATE that leaves status as it finds it
UpdateDomain_KeepStatus(rows, id, d, today) ==
    {IF r.id = id
     THEN [r EXCEPT !.expiry_date = d.ExpiryDate, !.last_seen = today]
     ELSE r : r \in rows}

\* UPDATE domains SET status = 'active', expiry_date = $1, last_seen = $2 ... WHERE id = $4
UpdateDomain(rows, id, d, today) ==
    {IF r.id = id
     THEN [r EXCEPT !.status = "active", !.expiry_date = d.ExpiryDate, !.last_seen = today]
     ELSE r : r \in rows}

\* sweep condition that also takes the rows seen today
DomainSweepMatch_Inclusive(rows, source, today) ==
    {r \in rows : r.registrar = source /\ r.status = "active" /\ r.last_seen <= today}

\* WHERE registrar = $1 AND status = 'active' AND last_seen < $2
DomainSweepMatch(rows, source, today) ==
    {r \in rows : r.registrar = source /\ r.status = "active" /\ r.last_seen < today}

\* UPDATE domains SET status = 'removed' WHERE ...
SweepDomains(rows, source, today) ==
    {IF r \in DomainSweepMatch(rows, source, today)
     THEN [r EXCEPT !.status = "removed"] ELSE r : r \in rows}

\* lookup that sees active rows only
SelectDNSRecord_ActiveOnly(rows, rec, source) ==
    {r.id : r \in {x \in rows : /\ x.domain = rec.Domain
                                /\ x.subdomain = rec.Subdomain
                                /\ x.record_type = rec.RecordType
                                /\ x.data = rec.Data
                                /\ x.source = source
                                /\ x.status = "active"}}

\* SELECT id FROM dns_records WHERE domain, subdomain, record_type, data, source
SelectDNSRecord(rows, rec, source) ==
    {r.id : r \in {x \in rows : /\ x.domain = rec.Domain
                                /\ x.subdomain = rec.Subdomain
                                /\ x.record_type = rec.RecordType
                                /\ x.data = rec.Data
                                /\ x.source = source}}

\* INSERT INTO dns_records (...) VALUES (..., 'active', $8, $8, $9)
InsertDNSRecord(rows, rec, source, today) ==
    rows \cup {[id |-> NewId(rows), domain |-> rec.Domain, subdomain |-> rec.Subdomain,
                record_type |-> rec.RecordType, data |-> rec.Data, ttl |-> rec.TTL,
                source |-> source, status |-> "active",
                discovery_date |-> today, last_seen |-> today]}

\* UPDATE that also rewrites discovery_date
UpdateDNSRecord_Rediscover(rows, id, rec, today) ==
    {IF r.id = id
     THEN [r EXCEPT !.status = "active", !.ttl = rec.TTL, !.last_seen = today,
                    !.discovery_date = today]
     ELSE r : r \in rows}

\* UPDATE dns_records SET status = 'active', ttl = $1, ..., last_seen = $3 WHERE id = $5
UpdateDNSRecord(rows, id, rec, today) ==
    {IF r.id = id
     THEN [r EXCEPT !.status = "active", !.ttl = rec.TTL, !.last_seen = today]
     ELSE r : r \in rows}

\* sweep condition without the parent-domain scope
DNSSweepMatch_Unscoped(rows, source, domain, today) ==
    {r \in rows : r.source = source /\ r.status = "active" /\ r.last_seen < today}

\* WHERE source = $1 AND domain = $2 AND status = 'active' AND last_seen < $3
DNSSweepMatch(rows, source, domain, today) ==
    {r \in rows : /\ r.source = source /\ r.domain = domain
                  /\ r.status = "active" /\ r.last_seen < today}

\* UPDATE dns_records SET status = 'removed' WHERE ...
SweepDNSRecords(rows, source, domain, today) ==
    {IF r \in DNSSweepMatch(rows, source, domain, today)
     THEN [r EXCEPT !.status = "removed"] ELSE r : r \in rows}

\* the database as readers see it (committed state)
Committed == [domains |-> domains, dns_records |-> dns_records]

\* time.Now() moves to the next calendar day
Tick ==
    /\ day < MaxDay
    /\ day' = day + 1
    /\ UNCHANGED <<now, domains, dns_records, tx, lockVars, ioVars>>

\* return nil, err: the deferred tx.Rollback() drops the transaction's writes
MergeFail(e) ==
    tx' = [tx EXCEPT !.pc = "returned", !.err = e, !.view = EmptyDB,
                     !.stats = NoStats, !.seenDomains = {}]

\* the call of a merge as its first statements leave it: m.db.BeginTx(ctx, nil),
\* today := time.Now().Format("2006-01-02")
BeginTx(fn, owner, source, batch, ok) ==
    [pc |-> IF ok THEN "loop" ELSE "returned",
     fn |-> fn, owner |-> owner, source |-> source, batch |-> batch, i |-> 1,
     today |-> day, view |-> IF ok THEN Committed ELSE EmptyDB,
     stats |-> NoStats, seenDomains |-> {},
     err |-> IF ok THEN NoErr ELSE "begin transaction",
     pre |-> Committed]

\* entry of MergeDomains / MergeDNSRecords, called with context.Background()
BeginMerge(fn, source, batch) ==
    /\ tx.pc = "none"
    /\ \E ok \in BOOLEAN : tx' = BeginTx(fn, NoTask, source, batch, ok)
    /\ UNCHANGED <<day, now, domains, dns_records, lockVars, ioVars>>

\* one iteration of the loop of MergeDomains: lookup, then insert or update
MergeDomains_Record ==
    /\ tx.pc = "loop" /\ tx.fn = "MergeDomains" /\ tx.i <= Len(tx.batch)
    /\ LET d == tx.batch[tx.i]
           rows == tx.view.domains
           found == SelectDomain(rows, d.Domain, tx.source)
       IN \E queryOK, execOK \in TxOutcomes :
            IF ~queryOK THEN MergeFail("query domain")
            ELSE IF found = {}
            THEN IF execOK /\ DomainUnique(rows, d.Domain, tx.source)
                 THEN tx' = [tx EXCEPT !.view.domains = InsertDomain(rows, d, tx.source, tx.today),
                                       !.stats.Added = @ + 1, !.i = @ + 1]
                 ELSE MergeFail("insert domain")
            ELSE IF execOK
                 THEN tx' = [tx EXCEPT !.view.domains =
                                           UpdateDomain(rows, CHOOSE id \in found : TRUE, d, tx.today),
                                       !.stats.Updated = @ + 1, !.i = @ + 1]
                 ELSE MergeFail("update domain")
    /\ UNCHANGED <<day, now, domains, dns_records, lockVars, ioVars>>

\* tombstone sweep issued on m.db instead of tx: it takes effect at once
MergeDomains_Sweep_OnDB ==
    /\ tx.pc = "loop" /\ tx.fn = "MergeDomains" /\ tx.i > Len(tx.batch)
    /\ domains' = SweepDomains(domains, tx.source, tx.today)
    /\ tx' = [tx EXCEPT !.stats.Removed =
                            Cardinality(DomainSweepMatch(domains, tx.source, tx.today)),
                        !.pc = "commit"]
    /\ UNCHANGED <<day, now, dns_records, lockVars, ioVars>>

\* tombstone sweep of MergeDomains
MergeDomains_Sweep ==
    /\ tx.pc = "loop" /\ tx.fn = "MergeDomains" /\ tx.i > Len(tx.batch)
    /\ \E ok \in TxOutcomes :
         IF ok
         THEN tx' = [tx EXCEPT !.view.domains = SweepDomains(tx.view.domains, tx.source, tx.today),
                               !.stats.Removed =
                                   Cardinality(DomainSweepMatch(tx.view.domains, tx.source, tx.today)),
                               !.pc = "commit"]
         ELSE MergeFail("mark removed domains")
    /\ UNCHANGED <<day, now, domains, dns_records, lockVars, ioVars>>

\* one iteration of the loop of MergeDNSRecords
MergeDNSRecords_Record ==
    /\ tx.pc = "loop" /\ tx.fn = "MergeDNSRecords" /\ tx.i <= Len(tx.batch)
    /\ LET rec == tx.batch[tx.i]
           rows == tx.view.dns_records
           found == SelectDNSRecord(rows, rec, tx.source)
       IN \E queryOK, execOK \in TxOutcomes :
            IF ~queryOK THEN MergeFail("query record")
            ELSE IF found = {}
            THEN IF execOK
                 THEN tx' = [tx EXCEPT !.view.dns_records =
                                           InsertDNSRecord(rows, rec, tx.source, tx.today),
                                       !.seenDomains = @ \cup {rec.Domain},
                                       !.stats.Added = @ + 1, !.i = @ + 1]
                 ELSE MergeFail("insert record")
            ELSE IF execOK
                 THEN tx' = [tx EXCEPT !.view.dns_records =
                                           UpdateDNSRecord(rows, CHOOSE id \in found : TRUE, rec, tx.today),
                                       !.seenDomains = @ \cup {rec.Domain},
                                       !.stats.Updated = @ + 1, !.i = @ + 1]
                 ELSE MergeFail("update record")
    /\ UNCHANGED <<day, now, domains, dns_records, lockVars, ioVars>>

\* end of the record loop of MergeDNSRecords: on to the sweep over seenDomains
MergeDNSRecords_LoopEnd ==
    /\ tx.pc = "loop" /\ tx.fn = "MergeDNSRecords" /\ tx.i > Len(tx.batch)
    /\ tx' = [tx EXCEPT !.pc = "sweep"]
    /\ UNCHANGED <<day, now, domains, dns_records, lockVars, ioVars>>

\* one iteration of `for domain := range seenDomains` (map order: any)
MergeDNSRecords_Sweep ==
    /\ tx.pc = "sweep" /\ tx.seenDomains # {}
    /\ \E domain \in tx.seenDomains, ok \in TxOutcomes :
         IF ok
         THEN tx' = [tx EXCEPT !.view.dns_records =
                                   SweepDNSRecords(tx.view.dns_records, tx.source, domain, tx.today),
                               !.stats.Removed = @ + Cardinality(
                                   DNSSweepMatch(tx.view.dns_records, tx.source, domain, tx.today)),
                               !.seenDomains = @ \ {domain}]
         ELSE MergeFail("mark removed records")
    /\ UNCHANGED <<day, now, domains, dns_records, lockVars, ioVars>>

\* the range loop is exhausted
MergeDNSRecords_SweepEnd ==
    /\ tx.pc = "sweep" /\ tx.seenDomains = {}
    /\ tx' = [tx EXCEPT !.pc = "commit"]
    /\ UNCHANGED <<day, now, domains, dns_records, lockVars, ioVars>>

\* tx.Commit(): the transaction's writes become the committed state, or the
\* commit fails and nothing does
Commit ==
    /\ tx.pc = "commit"
    /\ \E ok \in TxOutcomes :
         IF ok
         THEN /\ domains' = tx.view.domains
              /\ dns_records' = tx.view.dns_records
              /\ tx' = [tx EXCEPT !.pc = "returned", !.view = EmptyDB]
         ELSE /\ MergeFail("commit transaction")
              /\ UNCHANGED <<domains, dns_records>>
    /\ UNCHANGED <<day, now, lockVars, ioVars>>

\* the caller has the result; the merger is free for the next call
MergeReturn ==
    /\ tx.pc = "returned" /\ tx.owner = NoTask
    /\ tx' = NoTx
    /\ UNCHANGED <<day, now, domains, dns_records, lockVars, ioVars>>

\* MergeDomains, every step; U gives the values a source's batches hold
MergeDomains(U) ==
    \/ \E source \in DOMAIN U : \E batch \in Batches(U[source]) :
         BeginMerge("MergeDomains", source, batch)
    \/ MergeDomains_Record
    \/ MergeDomains_Sweep

\* MergeDNSRecords, every step; U gives the values a source's batches hold
MergeDNSRecords(U) ==
    \/ \E source \in DOMAIN U : \E batch \in Batches(U[source]) :
         BeginMerge("MergeDNSRecords", source, batch)
    \/ MergeDNSRecords_Record
    \/ MergeDNSRecords_LoopEnd
    \/ MergeDNSRecords_Sweep
    \/ MergeDNSRecords_SweepEnd

(***************************************************************************)
(* Collector and sync service (godaddy.go, service.SyncService)             *)
(***************************************************************************)
\* Collector.Source() of a registered collector
Source(c) == IF c = "godaddy_dns" THEN "GoDaddy" ELSE "Cloudflare"

\* the domain lists the registrar's API enumerates
Enumerations == {<<>>, <<"a.com">>, <<"b.com">>, <<"a.com", "b.com">>}

\* the record lists the API holds for a domain
RecordLists(name) ==
    {<<>>} \cup {<<r>> : r \in {x \in DNSUniverse : x.Domain = name /\ x.Subdomain = ""}}

\* what fetchDNSRecords returns for a domain: records, ErrQuotaExceeded, or
\* another error
FetchOutcomes(name) ==
    {[kind |-> "ok", records |-> l] : l \in RecordLists(name)}
    \cup {[kind |-> "quota", records |-> <<>>], [kind |-> "error", records |-> <<>>]}

\* the upstream as one Collect sees it: the enumerated domains and, for each,
\* the outcome of its record fetch
Upstreams ==
    UNION {{[doms |-> e, fetch |-> f] :
               f \in {g \in [1..Len(e) -> UNION {FetchOutcomes(n) : n \in {"a.com", "b.com"}}] :
                         \A i \in 1..Len(e) : g[i] \in FetchOutcomes(e[i])}} :
           e \in Enumerations}

\* fetch loop that goes on to the next domain after ErrQuotaExceeded
RECURSIVE FetchLoop_QuotaContinue(_, _, _)
FetchLoop_QuotaContinue(up, i, result) ==
    IF i > Len(up.doms) THEN result
    ELSE IF up.fetch[i].kind = "quota"
         THEN FetchLoop_QuotaContinue(up, i + 1,
                  [result EXCEPT !.quotaAt = IF @ = 0 THEN i ELSE @])
    ELSE IF up.fetch[i].kind = "error" THEN FetchLoop_QuotaContinue(up, i + 1, result)
    ELSE FetchLoop_QuotaContinue(up, i + 1,
             [result EXCEPT !.DNSRecords = @ \o up.fetch[i].records])

\* fetch loop that ends at the first domain whose fetch fails
RECURSIVE FetchLoop_ErrorBreaks(_, _, _)
FetchLoop_ErrorBreaks(up, i, result) ==
    IF i > Len(up.doms) THEN result
    ELSE IF up.fetch[i].kind = "quota" THEN [result EXCEPT !.quotaAt = i]
    ELSE IF up.fetch[i].kind = "error" THEN result
    ELSE FetchLoop_ErrorBreaks(up, i + 1,
             [result EXCEPT !.DNSRecords = @ \o up.fetch[i].records])

\* Collect, step 2: `for i, domain := range domains`, from index i on
RECURSIVE FetchLoop(_, _, _)
FetchLoop(up, i, result) ==
    IF i > Len(up.doms) THEN result
    ELSE IF up.fetch[i].kind = "quota" THEN [result EXCEPT !.quotaAt = i]
    ELSE IF up.fetch[i].kind = "error" THEN FetchLoop(up, i + 1, result)
    ELSE FetchLoop(up, i + 1, [result EXCEPT !.DNSRecords = @ \o up.fetch[i].records])

\* GoDaddyCollector.Collect once fetchAllDomains returned the domains
Collect(up) ==
    FetchLoop(up, 1,
              [Domains |-> [i \in 1..Len(up.doms) |->
                               [Domain |-> up.doms[i], ExpiryDate |-> NoExpiry]],
               DNSRecords |-> <<>>, quotaAt |-> 0])

\* the scheduler process dies (unrecovered panic of a goroutine, kill): its
\* goroutines and mutexes are gone, its open transaction is rolled back
Crash(p) ==
    /\ sched[p].pc = "started"
    /\ sched' = [sched EXCEPT ![p] = [@ EXCEPT !.pc = "crashed"]]
    /\ task' = [t \in Tasks |->
                  IF t[1] = p /\ task[t] # IdleTask
                  THEN [task[t] EXCEPT !.pc = "crashed", !.hpc = "none"]
                  ELSE task[t]]
    /\ mutex' = [mutex EXCEPT ![p] = [c \in Collectors |-> FALSE]]
    /\ tx' = IF tx.owner \in Tasks /\ tx.owner[1] = p THEN NoTx ELSE tx
    /\ UNCHANGED <<sync_status, day, now, domains, dns_records, ioVars>>

\* RunCollector: c.Collect(ctx) panics (nothing in runCollector, the cron
\* or the goroutine recovers)
RunCollector_Panic(t) ==
    /\ task[t].pc = "run"
    /\ Crash(t[1])

\* RunCollector: result, err := c.Collect(ctx)
RunCollector_Collect(t, U) ==
    /\ task[t].pc = "run"
    /\ \/ task' = [task EXCEPT ![t] =
                      [@ EXCEPT !.pc = "release", !.syncErr = "collector failed",
                                !.run = [entered |-> TRUE, up |-> [doms |-> <<>>, fetch |-> <<>>],
                                         result |-> NoResult, stats |-> NoStats,
                                         pre |-> Committed]]]
       \/ /\ ~task[t].ctxDone
          /\ \E up \in U :
               task' = [task EXCEPT ![t] =
                          [@ EXCEPT !.pc = "mergeDomains",
                                    !.run = [entered |-> TRUE, up |-> up,
                                             result |-> Collect(up), stats |-> NoStats,
                                             pre |-> Committed]]]
    /\ UNCHANGED <<sync_status, mutex, sched, mergeVars, ioVars>>

\* RunCollector: if len(result.Domains) > 0 { s.merger.MergeDomains(ctx, ...) }
RunCollector_MergeDomains(t) ==
    /\ task[t].pc = "mergeDomains"
    /\ IF Len(task[t].run.result.Domains) > 0
       THEN /\ tx.pc = "none"
            /\ \E ok \in DBOutcomes(t) :
                 tx' = BeginTx("MergeDomains", t, Source(task[t].coll),
                               task[t].run.result.Domains, ok)
            /\ task' = [task EXCEPT ![t] = [@ EXCEPT !.pc = "inMergeDomains"]]
       ELSE /\ task' = [task EXCEPT ![t] = [@ EXCEPT !.pc = "mergeDNS"]]
            /\ UNCHANGED tx
    /\ UNCHANGED <<sync_status, mutex, sched, day, now, domains, dns_records, ioVars>>

\* stats.Added += ...: the counters of a merge added to those of the run
AddStats(a, b) == [Added |-> a.Added + b.Added, Updated |-> a.Updated + b.Updated,
                   Removed |-> a.Removed + b.Removed]

\* RunCollector: MergeDomains returned
RunCollector_DomainsMerged(t) ==
    /\ task[t].pc = "inMergeDomains"
    /\ tx.pc = "returned" /\ tx.owner = t
    /\ task' = [task EXCEPT ![t] =
                  IF tx.err # NoErr
                  THEN [@ EXCEPT !.pc = "release", !.syncErr = "merge domains"]
                  ELSE [@ EXCEPT !.pc = "mergeDNS", !.run.stats = AddStats(@, tx.stats)]]
    /\ tx' = NoTx
    /\ UNCHANGED <<sync_status, mutex, sched, day, now, domains, dns_records, ioVars>>

\* RunCollector: if len(result.DNSRecords) > 0 { s.merger.MergeDNSRecords(ctx, ...) }
RunCollector_MergeDNSRecords(t) ==
    /\ task[t].pc = "mergeDNS"
    /\ IF Len(task[t].run.result.DNSRecords) > 0
       THEN /\ tx.pc = "none"
            /\ \E ok \in DBOutcomes(t) :
                 tx' = BeginTx("MergeDNSRecords", t, Source(task[t].coll),
                               task[t].run.result.DNSRecords, ok)
            /\ task' = [task EXCEPT ![t] = [@ EXCEPT !.pc = "inMergeDNS"]]
       ELSE /\ task' = [task EXCEPT ![t] = [@ EXCEPT !.pc = "release"]]
            /\ UNCHANGED tx
    /\ UNCHANGED <<sync_status, mutex, sched, day, now, domains, dns_records, ioVars>>

\* RunCollector: MergeDNSRecords returned; return stats, nil
RunCollector_DNSRecordsMerged(t) ==
    /\ task[t].pc = "inMergeDNS"
    /\ tx.pc = "returned" /\ tx.owner = t
    /\ task' = [task EXCEPT ![t] =
                  IF tx.err # NoErr
                  THEN [@ EXCEPT !.pc = "release", !.syncErr = "merge DNS records"]
                  ELSE [@ EXCEPT !.pc = "release", !.run.stats = AddStats(@, tx.stats)]]
    /\ tx' = NoTx
    /\ UNCHANGED <<sync_status, mutex, sched, day, now, domains, dns_records, ioVars>>

\* SyncService.RunCollector, every step of the caller's side; U is what the
\* upstream can hold
RunCollector(t, U) ==
    \/ RunCollector_Collect(t, U)
    \/ RunCollector_MergeDomains(t)
    \/ RunCollector_DomainsMerged(t)
    \/ RunCollector_MergeDNSRecords(t)
    \/ RunCollector_DNSRecordsMerged(t)

\* the statements of the merge a run is in
MergeSteps ==
    \/ MergeDomains_Record
    \/ MergeDomains_Sweep
    \/ MergeDNSRecords_Record
    \/ MergeDNSRecords_LoopEnd
    \/ MergeDNSRecords_Sweep
    \/ MergeDNSRecords_SweepEnd
    \/ Commit

\* cleanup condition without the age test
CleanupStaleMatch_AnyAge(rows, cutoff) ==
    {r \in rows : r.status = "running"}

\* WHERE status = 'running' AND started_at < $1
CleanupStaleMatch(rows, cutoff) ==
    {r \in rows : r.status = "running" /\ r.started_at < cutoff}

\* SyncLock.CleanupStale: UPDATE sync_status SET status = 'failed', ...
CleanupStale(rows, cutoff) ==
    {IF r \in CleanupStaleMatch(rows, cutoff)
     THEN [r EXCEPT !.status = "failed",
                    !.error_message = "Process terminated unexpectedly"]
     ELSE r : r \in rows}

\* the process comes up again and Scheduler.Start runs:
\* s.lock.CleanupStale(ctx, 2*time.Hour), its error only logged, then the cron
Start(p) ==
    /\ sched[p].pc = "crashed"
    /\ \E ok \in BOOLEAN :
         /\ sync_status' = IF ok THEN CleanupStale(sync_status, now - MaxStaleAge)
                                 ELSE sync_status
         /\ sched' = [sched EXCEPT ![p] = [pc |-> "started", cleanupErr |-> ~ok]]
    /\ UNCHANGED <<mutex, task, mergeVars, ioVars>>

\* a run the cron started is in progress in slot t
CronRunInProgress(t) ==
    task[t].trigger = "scheduled" /\ task[t].pc \notin {"idle", "done", "crashed"}

\* main: cancel(); Start gets past <-ctx.Done() and calls s.cron.Stop(): no
\* further entry fires. The jobs were started with context.Background().
Shutdown(p) ==
    /\ sched[p].pc = "started"
    /\ sched' = [sched EXCEPT ![p] = [@ EXCEPT !.pc = "stopping"]]
    /\ UNCHANGED <<sync_status, mutex, task, mergeVars, ioVars>>

\* Start: <-cronCtx.Done() returns once no cron job is running; return nil
Start_Return(p) ==
    /\ sched[p].pc = "stopping"
    /\ \A t \in Tasks : t[1] = p => ~CronRunInProgress(t)
    /\ sched' = [sched EXCEPT ![p] = [@ EXCEPT !.pc = "stopped"]]
    /\ UNCHANGED <<sync_status, mutex, task, mergeVars, ioVars>>

\* main: time.Sleep(2 * time.Second) is over and main returns: the process
\* ends with whatever its goroutines were doing
Exit(p) ==
    /\ sched[p].pc \in {"stopping", "stopped"}
    /\ sched' = [sched EXCEPT ![p] = [@ EXCEPT !.pc = "exited"]]
    /\ task' = [t \in Tasks |->
                  IF t[1] = p /\ task[t] # IdleTask /\ task[t].pc # "done"
                  THEN [task[t] EXCEPT !.pc = "crashed", !.hpc = "none"]
                  ELSE task[t]]
    /\ mutex' = [mutex EXCEPT ![p] = [c \in Collectors |-> FALSE]]
    /\ tx' = IF tx.owner \in Tasks /\ tx.owner[1] = p THEN NoTx ELSE tx
    /\ UNCHANGED <<sync_status, day, now, domains, dns_records, ioVars>>

\* an hour passes
Elapse ==
    /\ now < MaxHour
    /\ now' = now + 1
    /\ UNCHANGED <<day, domains, dns_records, tx, lockVars, ioVars>>

(***************************************************************************)
(* Test-domain filter (collector/dns) and the registrar's domain listing    *)
(* (godaddy.go)                                                             *)
(***************************************************************************)
\* strings are sequences of one-character strings
s_example == <<"e", "x", "a", "m", "p", "l", "e">>
s_test == <<"t", "e", "s", "t">>
s_domain == <<"d", "o", "m", "a", "i", "n">>
s_local == <<"l", "o", "c", "a", "l">>
s_demo == <<"d", "e", "m", "o">>
s_com == <<".", "c", "o", "m">>
s_org == <<".", "o", "r", "g">>
s_net == <<".", "n", "e", "t">>

\* var testDomains = map[string]bool{...}
testDomains ==
    {s_example \o s_com, s_example \o s_org, s_example \o s_net,
     s_test \o s_com, s_test \o s_org, s_test \o s_net,
     s_domain \o s_com, s_domain \o s_org, s_domain \o s_net,
     s_local \o <<"h", "o", "s", "t">>,
     <<"i", "n", "v", "a", "l", "i", "d">>,
     s_example, s_test, s_local,
     <<"i", "n", "t", "e", "r", "n", "a", "l">>,
     s_local \o s_domain}

\* var testPrefixes = []string{...}
testPrefixes ==
    <<s_test \o <<"-">>, s_test \o <<".">>,
      s_example \o <<"-">>, s_example \o <<".">>,
      s_demo \o <<"-">>, s_demo \o <<".">>,
      <<"s", "t", "a", "g", "i", "n", "g", "-">>,
      <<"d", "e", "v", "-">>>>

UpperCase == <<"A", "B", "C", "D", "E", "F", "G", "H", "I", "J", "K", "L", "M",
               "N", "O", "P", "Q", "R", "S", "T", "U", "V", "W", "X", "Y", "Z">>
LowerCase == <<"a", "b", "c", "d", "e", "f", "g", "h", "i", "j", "k", "l", "m",
               "n", "o", "p", "q", "r", "s", "t", "u", "v", "w", "x", "y", "z">>

\* strings.ToLower
ToLower(s) ==
    [i \in 1..Len(s) |->
        IF \E k \in 1..26 : UpperCase[k] = s[i]
        THEN LowerCase[CHOOSE k \in 1..26 : UpperCase[k] = s[i]]
        ELSE s[i]]

WhiteSpace == {" ", "\t", "\n", "\r"}

\* strings.TrimSpace
RECURSIVE TrimSpace(_)
TrimSpace(s) ==
    IF s = <<>> THEN s
    ELSE IF Head(s) \in WhiteSpace THEN TrimSpace(Tail(s))
    ELSE IF s[Len(s)] \in WhiteSpace THEN TrimSpace(SubSeq(s, 1, Len(s) - 1))
    ELSE s

\* strings.HasPrefix
HasPrefix(s, prefix) ==
    Len(s) >= Len(prefix) /\ SubSeq(s, 1, Len(prefix)) = prefix

\* IsTestDomain that compares the name as the upstream spelled it
IsTestDomain_Raw(domain) ==
    \/ domain \in testDomains
    \/ \E k \in 1..Len(testPrefixes) : HasPrefix(domain, testPrefixes[k])

\* IsTestDomain: exact match of the lowercased, trimmed name, then the prefixes
IsTestDomain(domain) ==
    LET d == ToLower(TrimSpace(domain))
    IN \/ d \in testDomains
       \/ \E k \in 1..Len(testPrefixes) : HasPrefix(d, testPrefixes[k])

\* names the registrar may return: d["domain"] of an entry, <<>> when the
\* entry has no name
n_example_com == s_example \o s_com
n_mycorp_com == <<"m", "y", "c", "o", "r", "p">> \o s_com
n_test_internal_io == s_test \o <<"-", "i", "n", "t", "e", "r", "n", "a", "l", ".", "i", "o">>
n_TEST_org == <<"T", "E", "S", "T">> \o s_org
n_demo_spaced == <<" ">> \o s_demo \o <<".", "x">> \o s_com \o <<" ">>
n_testing_com == s_test \o <<"i", "n", "g">> \o s_com
UpstreamNames ==
    {n_example_com, n_mycorp_com, n_test_internal_io, n_TEST_org, n_demo_spaced,
     n_testing_com, <<>>}

\* the registrar's domain list, in the order /v1/domains walks it
DomainLists == UNION {[1..n -> UpstreamNames] : n \in 0..MaxNames}

\* GET /v1/domains?limit=&marker=: the entries that follow the marker, at most
\* limit of them; without a marker, the head of the list
PageAfter(up, marker, limit) ==
    LET at == IF \E i \in 1..Len(up) : up[i] = marker
              THEN CHOOSE i \in 1..Len(up) :
                        up[i] = marker /\ \A j \in 1..(i - 1) : up[j] # marker
              ELSE 0
        from == IF marker = <<>> THEN 0 ELSE at
        to == IF from + limit < Len(up) THEN from + limit ELSE Len(up)
    IN SubSeq(up, from + 1, to)

\* the loop over one page: nameless entries, names already seen and test
\* domains are skipped
RECURSIVE AppendPage(_, _, _)
AppendPage(page, allDomains, seen) ==
    IF page = <<>> THEN [allDomains |-> allDomains, seen |-> seen]
    ELSE LET domainName == Head(page)
         IN IF domainName = <<>> THEN AppendPage(Tail(page), allDomains, seen)
            ELSE IF domainName \in seen THEN AppendPage(Tail(page), allDomains, seen)
            ELSE IF IsTestDomain(domainName)
                 THEN AppendPage(Tail(page), allDomains, seen \cup {domainName})
            ELSE AppendPage(Tail(page), Append(allDomains, domainName),
                            seen \cup {domainName})

\* Collect is called with cfg.DomainsLimit = limit against the list up
NewListing(up, limit) ==
    [pc |-> "list", collector |-> "godaddy_dns", up |-> up, limit |-> limit,
     marker |-> <<>>,
     allDomains |-> <<>>, seen |-> {}, page |-> <<>>,
     Domains |-> <<>>, i |-> 0, fetched |-> <<>>, quotaExceeded |-> FALSE]

\* marker = allDomains[len(allDomains)-1].domain
fetchAllDomains_NextMarker(allDomains) == allDomains[Len(allDomains)]

\* fetchAllDomains, one turn of the loop: the request, the loop over the page
\* and the two exits; the marker of an empty allDomains is an index out of
\* range
fetchAllDomains_Page ==
    /\ listing.pc = "list"
    /\ LET page == PageAfter(listing.up, listing.marker, listing.limit)
           merged == AppendPage(page, listing.allDomains, listing.seen)
           l == [listing EXCEPT !.page = page,
                                !.allDomains = merged.allDomains, !.seen = merged.seen]
       IN listing' =
            IF Len(page) = 0 \/ Len(page) < listing.limit
            THEN [l EXCEPT !.pc = "convert"]
            ELSE IF merged.allDomains = <<>>
            THEN [l EXCEPT !.pc = "panic"]
            ELSE [l EXCEPT !.marker = fetchAllDomains_NextMarker(merged.allDomains)]
    /\ UNCHANGED <<lockVars, mergeVars, client, export>>

\* fetchAllDomains: ctx.Err() != nil, or client.Get or json.Unmarshal fails;
\* Collect returns the error
fetchAllDomains_Error ==
    /\ listing.pc = "list"
    /\ listing' = [listing EXCEPT !.pc = "failed"]
    /\ UNCHANGED <<lockVars, mergeVars, client, export>>

\* Collect: result.Domains gets every listed domain
Collect_Convert ==
    /\ listing.pc = "convert"
    /\ listing.collector = "godaddy_dns"
    /\ listing' = [listing EXCEPT !.pc = "fetch", !.Domains = listing.allDomains, !.i = 1]
    /\ UNCHANGED <<lockVars, mergeVars, client, export>>

\* Collect, one turn of the loop over domains: fetchDNSRecords for domain i;
\* quota ends the loop, any other error skips the domain
Collect_FetchDNSRecords ==
    /\ listing.pc = "fetch"
    /\ listing.collector = "godaddy_dns"
    /\ listing.i <= Len(listing.allDomains)
    /\ \E kind \in {"ok", "quota", "error"} :
         listing' = [listing EXCEPT
                       !.fetched = Append(@, listing.allDomains[listing.i]),
                       !.quotaExceeded = (kind = "quota"),
                       !.i = IF kind = "quota" THEN Len(listing.allDomains) + 1 ELSE @ + 1]
    /\ UNCHANGED <<lockVars, mergeVars, client, export>>

\* Collect: return result, nil
Collect_Return ==
    /\ listing.pc = "fetch"
    /\ listing.collector = "godaddy_dns"
    /\ listing.i > Len(listing.allDomains)
    /\ listing' = [listing EXCEPT !.pc = "returned"]
    /\ UNCHANGED <<lockVars, mergeVars, client, export>>

\* GET /zones?page=&per_page=: the entries of that page
ZonePage(up, page, perPage) ==
    LET to == IF page * perPage < Len(up) THEN page * perPage ELSE Len(up)
    IN SubSeq(up, (page - 1) * perPage + 1, to)

\* result_info.total_pages of the zone list
TotalPages(up, perPage) == (Len(up) + perPage - 1) \div perPage

\* the loop over one page of zones: entries without id or name (<<>>) and
\* test domains are skipped
RECURSIVE AppendZones(_, _)
AppendZones(page, allZones) ==
    IF page = <<>> THEN allZones
    ELSE IF Head(page) = <<>> THEN AppendZones(Tail(page), allZones)
    ELSE IF IsTestDomain(Head(page)) THEN AppendZones(Tail(page), allZones)
    ELSE AppendZones(Tail(page), Append(allZones, Head(page)))

\* CloudflareCollector.Collect is called with cfg.ZonesPerPage =
\* cfg.RecordsPerPage = perPage against the zone list up, each zone holding
\* nrec records; zlog and rlog are the page numbers requested of the zone
\* list and of the records of the zone at hand (or, between zones, of the
\* zone before), rlast how the record listing of that zone ended
NewZoneListing(up, perPage, nrec) ==
    [pc |-> "verify", collector |-> "cloudflare_dns", up |-> up, limit |-> perPage,
     nrec |-> nrec, page |-> 1, zlog |-> <<>>, allZones |-> <<>>, Domains |-> <<>>,
     i |-> 0, rpage |-> 1, rlog |-> <<>>, rlast |-> "none", fetched |-> <<>>]

\* Collect (Cloudflare): verifyToken, the first statement; when it fails
\* Collect returns the error
CloudflareCollect_VerifyToken ==
    /\ listing.pc = "verify"
    /\ \E ok \in BOOLEAN :
         listing' = [listing EXCEPT !.pc = IF ok THEN "zones" ELSE "failed"]
    /\ UNCHANGED <<lockVars, mergeVars, client, export>>

\* last-page test that lets the page after total_pages be requested
LastPage_Exclusive(page, totalPages, n) == page > totalPages \/ n = 0

\* if page >= resp.ResultInfo.TotalPages || len(resp.Result) == 0 { break }
LastPage(page, totalPages, n) == page >= totalPages \/ n = 0

\* fetchAllZones, one turn of the loop
fetchAllZones_Page ==
    /\ listing.pc = "zones"
    /\ LET result == ZonePage(listing.up, listing.page, listing.limit)
           l == [listing EXCEPT !.allZones = AppendZones(result, @),
                                !.zlog = Append(@, listing.page)]
       IN listing' =
            IF LastPage(listing.page, TotalPages(listing.up, listing.limit), Len(result))
            THEN [l EXCEPT !.pc = "convert"]
            ELSE [l EXCEPT !.page = @ + 1]
    /\ UNCHANGED <<lockVars, mergeVars, client, export>>

\* Collect (Cloudflare): fetchAllZones meets a cancelled context, a failed
\* request or success = false
fetchAllZones_Error ==
    /\ listing.pc = "zones"
    /\ listing' = [listing EXCEPT !.pc = "failed"]
    /\ UNCHANGED <<lockVars, mergeVars, client, export>>

\* Collect (Cloudflare): result.Domains gets every listed zone
CloudflareCollect_Convert ==
    /\ listing.pc = "convert"
    /\ listing.collector = "cloudflare_dns"
    /\ listing' = [listing EXCEPT !.pc = "fetch", !.Domains = listing.allZones, !.i = 1]
    /\ UNCHANGED <<lockVars, mergeVars, client, export>>

\* GET /zones/{id}/dns_records?page=&per_page=: how many records that page
\* holds, and result_info.total_pages
RecordPage(nrec, page, perPage) ==
    IF page * perPage <= nrec THEN perPage
    ELSE IF (page - 1) * perPage < nrec THEN nrec - (page - 1) * perPage
    ELSE 0
RecordPages(nrec, perPage) == (nrec + perPage - 1) \div perPage

\* fetchDNSRecords (Cloudflare), one turn of the loop for zone i; after the
\* last page Collect appends the records and goes to the next zone
CloudflareCollect_FetchDNSRecords ==
    /\ listing.pc = "fetch"
    /\ listing.collector = "cloudflare_dns"
    /\ listing.i <= Len(listing.allZones)
    /\ LET n == RecordPage(listing.nrec, listing.rpage, listing.limit)
           l == [listing EXCEPT !.rlog = IF listing.rpage = 1 THEN <<1>>
                                         ELSE Append(@, listing.rpage)]
       IN listing' =
            IF LastPage(listing.rpage, RecordPages(listing.nrec, listing.limit), n)
            THEN [l EXCEPT !.fetched = Append(@, listing.allZones[listing.i]),
                           !.i = @ + 1, !.rpage = 1, !.rlast = "ok"]
            ELSE [l EXCEPT !.rpage = @ + 1, !.rlast = "none"]
    /\ UNCHANGED <<lockVars, mergeVars, client, export>>

\* fetchDNSRecords (Cloudflare) returns an error (request failed, success =
\* false, unparsable body): Collect logs it and goes to the next zone
CloudflareCollect_FetchError ==
    /\ listing.pc = "fetch"
    /\ listing.collector = "cloudflare_dns"
    /\ listing.i <= Len(listing.allZones)
    /\ listing' = [listing EXCEPT !.fetched = Append(@, listing.allZones[listing.i]),
                                  !.rlog = IF listing.rpage = 1 THEN <<1>>
                                           ELSE Append(@, listing.rpage),
                                  !.i = @ + 1, !.rpage = 1, !.rlast = "error"]
    /\ UNCHANGED <<lockVars, mergeVars, client, export>>

\* Collect (Cloudflare): return result, nil
CloudflareCollect_Return ==
    /\ listing.pc = "fetch"
    /\ listing.collector = "cloudflare_dns"
    /\ listing.i > Len(listing.allZones)
    /\ listing' = [listing EXCEPT !.pc = "returned"]
    /\ UNCHANGED <<lockVars, mergeVars, client, export>>

(***************************************************************************)
(* HTTP fetch client (pkg/httpclient)                                       *)
(***************************************************************************)
\* status codes and bodies the upstream may answer with: tooMany and quota
\* say whether the body contains TOO_MANY_REQUESTS and QUOTA_EXCEEDED
Statuses == {200, 400, 404, 429, 500}
Responses == [kind : {"response"}, status : Statuses, tooMany : BOOLEAN, quota : BOOLEAN]
TransportError == [kind |-> "transport"]
NoResponse == [kind |-> "none"]

\* DoWithRetry is entered with cfg.MaxRetries = maxRetries: attempt 0, no
\* lastErr; requests counts the requests http.Do has sent, last is what the
\* latest http.Do met
NewClientCall(maxRetries) ==
    [pc |-> "call", maxRetries |-> maxRetries, attempt |-> 0, lastErr |-> NoErr,
     ctxDone |-> FALSE, requests |-> 0, last |-> NoResponse,
     ret |-> [kind |-> "none", wraps |-> NoErr]]

\* return nil, err / return respBody, nil
ClientReturn(c, kind, wraps) ==
    [c EXCEPT !.pc = "returned", !.ret = [kind |-> kind, wraps |-> wraps]]

\* the head of the loop: `attempt <= c.cfg.MaxRetries`, the context check,
\* then the backoff sleep of every attempt but the first; after the loop,
\* "max retries exceeded: %w" of lastErr
LoopHead(c) ==
    IF c.attempt > c.maxRetries THEN ClientReturn(c, "max retries exceeded", c.lastErr)
    ELSE IF c.ctxDone THEN ClientReturn(c, "context", NoErr)
    ELSE IF c.attempt > 0 THEN [c EXCEPT !.pc = "backoff"]
    ELSE [c EXCEPT !.pc = "do"]

\* `continue`: attempt++ and the head of the loop
Continue(c, lastErr) == LoopHead([c EXCEPT !.lastErr = lastErr, !.attempt = @ + 1])

\* a client that checks 404 before the QUOTA_EXCEEDED body
Classify_NotFoundFirst(c, resp) ==
    IF resp.status = 429 \/ resp.tooMany THEN [c EXCEPT !.pc = "sleep429"]
    ELSE IF resp.status = 404 THEN ClientReturn(c, "not found", NoErr)
    ELSE IF resp.quota THEN ClientReturn(c, "quota exceeded", NoErr)
    ELSE IF resp.status >= 200 /\ resp.status < 300 THEN ClientReturn(c, "ok", NoErr)
    ELSE IF resp.status >= 400 /\ resp.status < 500 THEN ClientReturn(c, "HTTP", NoErr)
    ELSE Continue(c, "HTTP")

\* a client that retries the 4xx responses as it retries the 5xx
Classify_RetryClientErrors(c, resp) ==
    IF resp.status = 429 \/ resp.tooMany THEN [c EXCEPT !.pc = "sleep429"]
    ELSE IF resp.quota THEN ClientReturn(c, "quota exceeded", NoErr)
    ELSE IF resp.status = 404 THEN ClientReturn(c, "not found", NoErr)
    ELSE IF resp.status >= 200 /\ resp.status < 300 THEN ClientReturn(c, "ok", NoErr)
    ELSE Continue(c, "HTTP")

\* the if-chain after the body is read: rate limit, quota, 404, 2xx, then
\* lastErr = "HTTP %d: ..." returned for a 4xx and retried otherwise
Classify(c, resp) ==
    IF resp.status = 429 \/ resp.tooMany THEN [c EXCEPT !.pc = "sleep429"]
    ELSE IF resp.quota THEN ClientReturn(c, "quota exceeded", NoErr)
    ELSE IF resp.status = 404 THEN ClientReturn(c, "not found", NoErr)
    ELSE IF resp.status >= 200 /\ resp.status < 300 THEN ClientReturn(c, "ok", NoErr)
    ELSE IF resp.status >= 400 /\ resp.status < 500 THEN ClientReturn(c, "HTTP", NoErr)
    ELSE Continue(c, "HTTP")

\* a rate-limited attempt that is not counted as an attempt
AfterRateLimit_NotCounted(c) == LoopHead([c EXCEPT !.lastErr = "rate limited"])

\* lastErr = ErrRateLimited; continue
AfterRateLimit(c) == Continue(c, "rate limited")

\* DoWithRetry is entered: the head of the loop for attempt 0
DoWithRetry_Enter ==
    /\ client.pc = "call"
    /\ client' = LoopHead(client)
    /\ UNCHANGED <<lockVars, mergeVars, listing, export>>

\* the backoff sleep: select on ctx.Done() and time.After(sleepTime)
DoWithRetry_Backoff ==
    /\ client.pc = "backoff"
    /\ client' = IF client.ctxDone THEN ClientReturn(client, "context", NoErr)
                                   ELSE [client EXCEPT !.pc = "do"]
    /\ UNCHANGED <<lockVars, mergeVars, listing, export>>

\* c.http.Do(req) and io.ReadAll(resp.Body), up to the next sleep or return:
\* with a cancelled context the round trip fails before a request is sent;
\* otherwise the request is sent and fails (transport, timeout, body read) or
\* is answered
DoWithRetry_Do ==
    /\ client.pc = "do"
    /\ IF client.ctxDone
       THEN client' = Continue([client EXCEPT !.last = TransportError],
                               "request failed: context canceled")
       ELSE \/ client' = Continue([client EXCEPT !.last = TransportError,
                                                 !.requests = @ + 1],
                                  "request failed")
            \/ \E resp \in Responses :
                 client' = Classify([client EXCEPT !.last = resp, !.requests = @ + 1], resp)
    /\ UNCHANGED <<lockVars, mergeVars, listing, export>>

\* the sleep after a rate-limited answer: select on ctx.Done() and
\* time.After(c.cfg.SleepOn429)
DoWithRetry_Sleep429 ==
    /\ client.pc = "sleep429"
    /\ client' = IF client.ctxDone THEN ClientReturn(client, "context", NoErr)
                                   ELSE AfterRateLimit(client)
    /\ UNCHANGED <<lockVars, mergeVars, listing, export>>

\* the caller's context is cancelled while the call is in progress
Cancel ==
    /\ client.pc \in {"call", "backoff", "do", "sleep429"}
    /\ ~client.ctxDone
    /\ client' = [client EXCEPT !.ctxDone = TRUE]
    /\ UNCHANGED <<lockVars, mergeVars, listing, export>>

\* the steps of one DoWithRetry call
DoWithRetry ==
    \/ DoWithRetry_Enter
    \/ DoWithRetry_Backoff
    \/ DoWithRetry_Do
    \/ DoWithRetry_Sleep429

(***************************************************************************)
(* Snapshot exporter (service.ExportService, SyncService.GetDomains)        *)
(***************************************************************************)
\* the place of a text value in the collation of ORDER BY
Collate(s) ==
    CASE s = "" -> 0
      [] s = "a.com" -> 1
      [] s = "b.com" -> 2
      [] s = "www" -> 3

\* the orders in which a query may return the rows S under ORDER BY, key
\* giving each row its sort key: rows of equal key come in any order
OrderBy(S, key) ==
    {seq \in [1..Cardinality(S) -> S] :
        /\ \A i, j \in 1..Cardinality(S) : i # j => seq[i] # seq[j]
        /\ \A i, j \in 1..Cardinality(S) :
              (i < j) => \/ key[seq[i]][1] < key[seq[j]][1]
                         \/ /\ key[seq[i]][1] = key[seq[j]][1]
                            /\ key[seq[i]][2] <= key[seq[j]][2]}

\* formatDate of a DATE column the driver hands over as a time value
formatDate(v) == <<"%v", v>>

\* GetDomains: the map built from one scanned row
DomainResult(r) ==
    IF r.expiry_date = NoExpiry
    THEN [domain |-> r.domain, registrar |-> r.registrar, status |-> r.status,
          discovery_date |-> formatDate(r.discovery_date),
          last_seen |-> formatDate(r.last_seen)]
    ELSE [domain |-> r.domain, registrar |-> r.registrar, status |-> r.status,
          expiry_date |-> formatDate(r.expiry_date),
          discovery_date |-> formatDate(r.discovery_date),
          last_seen |-> formatDate(r.last_seen)]

DomainKey(r) == <<Collate(r.domain), 0>>

\* GetDomains(ctx, status, ""): SELECT ... FROM domains WHERE 1=1
\* [AND status = $1] ORDER BY domain
GetDomains(rows, status) ==
    LET S == {r \in rows : status = "" \/ r.status = status}
    IN {[i \in 1..Len(seq) |-> DomainResult(seq[i])] : seq \in OrderBy(S, [r \in S |-> DomainKey(r)])}

\* GetDNSRecords: the map built from one scanned row
DNSResult(r) ==
    [domain |-> r.domain, subdomain |-> r.subdomain, type |-> r.record_type,
     data |-> r.data, source |-> r.source, status |-> r.status,
     discovery_date |-> formatDate(r.discovery_date),
     last_seen |-> formatDate(r.last_seen)]

DNSKey(r) == <<Collate(r.domain), Collate(r.subdomain)>>

\* GetDNSRecords(ctx, status, "", ""): SELECT ... FROM dns_records WHERE 1=1
\* [AND status = $1] ORDER BY domain, subdomain
GetDNSRecords(rows, status) ==
    LET S == {r \in rows : status = "" \/ r.status = status}
    IN {[i \in 1..Len(seq) |-> DNSResult(seq[i])] : seq \in OrderBy(S, [r \in S |-> DNSKey(r)])}

\* getRemovedAssets: the entry of a removed domain
RemovedDomain(d) ==
    [asset_type |-> "domain", name |-> <<d.domain>>, provider |-> d.registrar,
     details |-> <<"Domain removed from registrar">>,
     discovery_date |-> d.discovery_date, removed_date |-> d.last_seen,
     status |-> "removed"]

\* getRemovedAssets: the entry of a removed DNS record
RemovedRecord(r) ==
    [asset_type |-> "subdomain",
     name |-> IF r.subdomain # "" THEN <<r.subdomain, ".", r.domain>> ELSE <<r.domain>>,
     provider |-> r.source, details |-> <<r.type, " record - ", r.data>>,
     discovery_date |-> r.discovery_date, removed_date |-> r.last_seen,
     status |-> "removed"]

\* getRemovedAssets: the removed domains, then the removed records
getRemovedAssets(db) ==
    {[i \in 1..Len(ds) |-> RemovedDomain(ds[i])] \o [i \in 1..Len(rs) |-> RemovedRecord(rs[i])] :
        ds \in GetDomains(db.domains, "removed"), rs \in GetDNSRecords(db.dns_records, "removed")}

\* updateMetadata: services.dns and last_updated of metadata.json; time is
\* time.Now() to the calendar day
Metadata(domainCount, recordCount, time) ==
    [last_updated |-> time,
     dns |-> [last_updated |-> time,
              domains |-> [last_updated |-> time, count |-> domainCount],
              subdomains |-> [last_updated |-> time, count |-> recordCount]]]

\* the output directory before the first export
NoFiles == [domains |-> <<>>, subdomains |-> <<>>, removed |-> <<>>,
            metadata |-> Metadata(0, 0, 0)]

\* no ExportAll call has completed
NoExport == [dir |-> NoFiles, n |-> 0]

\* the exporter at start: dir is the output directory, prev the files the
\* completed call before left there
NewExporter == [pc |-> "domains", dir |-> NoFiles, prev |-> NoExport]

\* ExportAll returns an error: the files written so far stay
ExportAll_Fail == [export EXCEPT !.pc = "domains", !.prev = NoExport]

\* ExportAll: GetDomains(ctx, "", "") and writeJSON("domains.json")
ExportAll_Domains ==
    /\ export.pc = "domains"
    /\ \/ export' = ExportAll_Fail
       \/ \E result \in GetDomains(domains, "") :
            export' = [export EXCEPT !.pc = "subdomains", !.dir.domains = result]
    /\ UNCHANGED <<lockVars, mergeVars, client, listing>>

\* ExportAll: GetDNSRecords(ctx, "", "", "") and writeJSON("subdomains.json")
ExportAll_Subdomains ==
    /\ export.pc = "subdomains"
    /\ \/ export' = ExportAll_Fail
       \/ \E result \in GetDNSRecords(dns_records, "") :
            export' = [export EXCEPT !.pc = "removed", !.dir.subdomains = result]
    /\ UNCHANGED <<lockVars, mergeVars, client, listing>>

\* ExportAll: getRemovedAssets and writeJSON("removed.json")
ExportAll_Removed ==
    /\ export.pc = "removed"
    /\ \/ export' = ExportAll_Fail
       \/ \E result \in getRemovedAssets(Committed) :
            export' = [export EXCEPT !.pc = "metadata", !.dir.removed = result]
    /\ UNCHANGED <<lockVars, mergeVars, client, listing>>

\* ExportAll: updateMetadata(ctx, len(domains), len(records)), return nil
ExportAll_Metadata ==
    /\ export.pc = "metadata"
    /\ \/ export' = ExportAll_Fail
       \/ LET dir == [export.dir EXCEPT
                        !.metadata = Metadata(Len(export.dir.domains),
                                              Len(export.dir.subdomains), day)]
          IN export' = [export EXCEPT !.pc = "domains", !.dir = dir,
                                        !.prev = [dir |-> dir, n |-> 1]]
    /\ UNCHANGED <<lockVars, mergeVars, client, listing>>

\* the snapshot files in write order, and the file after each
Files == <<"domains", "subdomains", "removed", "metadata">>
NextFile(f) == CASE f = "domains" -> "subdomains"
                 [] f = "subdomains" -> "removed"
                 [] f = "removed" -> "metadata"

\* an empty output directory
NoDir == [f \in Range(Files) |-> <<>>]

\* os.File.Write through a descriptor of its own at offset 0: the data
\* replaces the head of the file, what lies beyond its end stays
WriteAt(content, data) == data \o SubSeq(content, Len(data) + 1, Len(content))

\* ExportAll calls of the runs of the two collectors over one output
\* directory: file is the file a call works on, data its result or encoder
\* input, out what it has written, nd and nr len(domains) and len(records)
NoWriter == [pc |-> "idle", file |-> "domains", data |-> <<>>, out |-> NoDir,
             nd |-> 0, nr |-> 0]
NewWriters == [dir |-> NoDir, w |-> [s \in Sources |-> NoWriter]]

\* runCollector of source s reaches exportSvc.ExportAll: its RunCollector,
\* and with it its merges, have returned
ExportAll_Enter(s) ==
    /\ export.w[s].pc = "idle"
    /\ tx.source # s
    /\ export' = [export EXCEPT !.w[s].pc = "query"]
    /\ UNCHANGED <<lockVars, mergeVars, client, listing>>

\* ExportAll: GetDomains, GetDNSRecords or getRemovedAssets of the committed
\* tables
ExportAll_Query(s) ==
    LET w == export.w[s]
    IN /\ w.pc = "query"
       /\ \E result \in CASE w.file = "domains" -> GetDomains(domains, "")
                          [] w.file = "subdomains" -> GetDNSRecords(dns_records, "")
                          [] w.file = "removed" -> getRemovedAssets(Committed) :
            export' = [export EXCEPT !.w[s] =
                          [w EXCEPT !.pc = "create", !.data = result,
                                    !.nd = IF w.file = "domains" THEN Len(result) ELSE @,
                                    !.nr = IF w.file = "subdomains" THEN Len(result) ELSE @]]
       /\ UNCHANGED <<lockVars, mergeVars, client, listing>>

\* updateMetadata: os.ReadFile of metadata.json (an empty or missing file
\* gives a new map), then services.dns and last_updated are set
updateMetadata_ReadFile(s) ==
    LET w == export.w[s]
    IN /\ w.pc = "readfile"
       /\ export' = [export EXCEPT !.w[s] =
                        [w EXCEPT !.pc = "create", !.data = <<Metadata(w.nd, w.nr, day)>>]]
       /\ UNCHANGED <<lockVars, mergeVars, client, listing>>

\* writeJSON: os.Create truncates the file
writeJSON_Create(s) ==
    LET w == export.w[s]
    IN /\ w.pc = "create"
       /\ export' = [export EXCEPT !.dir[w.file] = <<>>, !.w[s].pc = "encode"]
       /\ UNCHANGED <<lockVars, mergeVars, client, listing>>

\* writeJSON: encoder.Encode(data) writes the document, f.Close(); ExportAll
\* goes on to the next file or returns nil
writeJSON_Encode(s) ==
    LET w == export.w[s]
    IN /\ w.pc = "encode"
       /\ export' = [export EXCEPT
             !.dir[w.file] = WriteAt(@, w.data),
             !.w[s] = [w EXCEPT !.out[w.file] = w.data,
                                !.data = <<>>,
                                !.file = IF w.file = "metadata" THEN @ ELSE NextFile(w.file),
                                !.pc = CASE w.file = "metadata" -> "returned"
                                         [] w.file = "removed" -> "readfile"
                                         [] OTHER -> "query"]]
       /\ UNCHANGED <<lockVars, mergeVars, client, listing>>

\* ExportAll returns an error of a query: the files written so far stay
ExportAll_Error(s) ==
    /\ export.w[s].pc = "query"
    /\ export' = [export EXCEPT !.w[s].pc = "failed", !.w[s].data = <<>>]
    /\ UNCHANGED <<lockVars, mergeVars, client, listing>>

InitMergeIdle ==
    /\ day = 1
    /\ now = 0
    /\ domains = {}
    /\ dns_records = {}
    /\ tx = NoTx

InitIOIdle ==
    /\ client = NoCall
    /\ listing = NoCall
    /\ export = NoCall

\* one process: cron ticks and manual triggers over all collectors
Init == InitLock /\ InitMergeIdle /\ InitIOIdle

Next ==
    \E t \in {"p1"} \X TaskIds :
        \/ \E c \in Collectors : CronTick(t, c)
        \/ handleTriggerSync(t)
        \/ runCollector(t)

Spec == Init /\ [][Next]_vars

\* several processes sharing the database, cron ticks of one collector
MultiTasks == {<<"p1", 1>>, <<"p1", 2>>, <<"p2", 1>>}

NextMulti ==
    \E t \in MultiTasks :
        \/ \E c \in Collectors : CronTick(t, c)
        \/ runCollector(t)

SpecMulti == Init /\ [][NextMulti]_vars

\* the reconciler alone: domain merges of both sources
NextDomains ==
    \/ Tick
    \/ MergeDomains([s \in Sources |-> DomainUniverse(s)])
    \/ Commit
    \/ MergeReturn

SpecDomains == Init /\ [][NextDomains]_vars

\* the reconciler alone: DNS merges of one source
NextDNS ==
    \/ Tick
    \/ MergeDNSRecords([s \in {"GoDaddy"} |-> DNSUniverse])
    \/ Commit
    \/ MergeReturn

SpecDNS == Init /\ [][NextDNS]_vars

\* the reconciler alone: domain and DNS merges of one source
SmallDomains == [s \in {"GoDaddy"} |-> {d \in DomainUniverse(s) : d.ExpiryDate = NoExpiry}]
SmallDNS == [s \in {"GoDaddy"} |-> {r \in DNSUniverse : r.Domain = "a.com"}]

NextMerge ==
    \/ Tick
    \/ MergeDomains(SmallDomains)
    \/ MergeDNSRecords(SmallDNS)
    \/ Commit
    \/ MergeReturn

SpecMerge == Init /\ [][NextMerge]_vars

\* one process, one collector, the whole run: lock, collect, merges, release,
\* export
RunTasks == {<<"p1", 1>>, <<"p1", 2>>}

NextRun ==
    \/ Tick
    \/ MergeSteps
    \/ \E t \in RunTasks :
        \/ CronTick(t, "godaddy_dns")
        \/ TryAcquire_TryLock(t)
        \/ TryAcquire_Select(t)
        \/ TryAcquire_Insert(t)
        \/ RunCollector(t, Upstreams)
        \/ RunCollector_Panic(t)
        \/ Release(t)
        \/ ExportAll(t)

SpecRun == Init /\ [][NextRun]_vars

\* one process, one collector, cron ticks and manual triggers, the whole run
\* against an upstream that holds one domain and its record
TriggerUpstreams ==
    {up \in Upstreams : /\ up.doms = <<"a.com">>
                        /\ up.fetch[1].kind = "ok" /\ Len(up.fetch[1].records) = 1}

NextTrigger ==
    \/ MergeSteps
    \/ \E t \in RunTasks :
        \/ CronTick(t, "godaddy_dns")
        \/ handleTriggerSync_Receive(t, "godaddy_dns")
        \/ handleTriggerSync_IsRunning(t)
        \/ TriggerSync(t)
        \/ handleTriggerSync_Return(t)
        \/ TryAcquire_TryLock(t)
        \/ TryAcquire_Select(t)
        \/ TryAcquire_Insert(t)
        \/ RunCollector(t, TriggerUpstreams)
        \/ Release(t)
        \/ ExportAll(t)

SpecTrigger == Init /\ [][NextTrigger]_vars

\* two processes that crash and start again while the clock runs
NextStart ==
    \/ Elapse
    \/ Crash("p1")
    \/ Start("p1")
    \/ \E t \in MultiTasks :
        \/ CronTick(t, IF t[1] = "p1" THEN "godaddy_dns" ELSE "cloudflare_dns")
        \/ runCollector(t)

SpecStart == Init /\ [][NextStart]_vars


\* one process, runs of the Cloudflare collector by cron and by trigger,
\* whose token verification may fail
NextVerify ==
    \E t \in {"p1"} \X TaskIds :
        \/ CronTick(t, "cloudflare_dns")
        \/ handleTriggerSync(t)
        \/ runCollector(t)
        \/ RunCollector_VerifyFailed(t)

SpecVerify == Init /\ [][NextVerify]_vars

\* one process whose cron runs both collectors until main shuts it down
NextStop ==
    \/ Shutdown("p1")
    \/ Start_Return("p1")
    \/ Exit("p1")
    \/ \E t \in {"p1"} \X TaskIds :
        \/ \E c \in Collectors : CronTick(t, c)
        \/ runCollector(t)

SpecStop == Init /\ [][NextStop]_vars

\* the reconciler alone: both sources hold the same domain and the same record
SharedDomains == [s \in Sources |-> {[Domain |-> "a.com", ExpiryDate |-> NoExpiry]}]
SharedDNS == [s \in Sources |-> {r \in DNSUniverse : r.Domain = "a.com" /\ r.Subdomain = ""}]

NextSources ==
    \/ Tick
    \/ MergeDomains(SharedDomains)
    \/ MergeDNSRecords(SharedDNS)
    \/ Commit
    \/ MergeReturn

SpecSources == Init /\ [][NextSources]_vars

\* the collectors alone: one Collect call for each domain list and page size
DomainsLimits == {1, 2}

InitListing ==
    /\ InitLock /\ InitMergeIdle
    /\ client = NoCall
    /\ export = NoCall
    /\ \E up \in DomainLists, limit \in DomainsLimits :
         listing \in {NewListing(up, limit)}
                       \cup {NewZoneListing(up, limit, nrec) : nrec \in 0..MaxRecords}

NextListing ==
    \/ fetchAllDomains_Page
    \/ fetchAllDomains_Error
    \/ Collect_Convert
    \/ Collect_FetchDNSRecords
    \/ Collect_Return
    \/ CloudflareCollect_VerifyToken
    \/ fetchAllZones_Page
    \/ fetchAllZones_Error
    \/ CloudflareCollect_Convert
    \/ CloudflareCollect_FetchDNSRecords
    \/ CloudflareCollect_FetchError
    \/ CloudflareCollect_Return

SpecListing == InitListing /\ [][NextListing]_vars

\* the fetch client alone: one DoWithRetry call for each configured
\* MaxRetries, against any upstream, with a caller that may cancel
InitClient ==
    /\ InitLock /\ InitMergeIdle
    /\ listing = NoCall
    /\ export = NoCall
    /\ \E maxRetries \in 0..MaxConfigRetries : client = NewClientCall(maxRetries)

NextClient ==
    \/ DoWithRetry_Enter
    \/ DoWithRetry_Backoff
    \/ DoWithRetry_Do
    \/ DoWithRetry_Sleep429
    \/ Cancel

SpecClient == InitClient /\ [][NextClient]_vars

\* the same call where every sleep ends and every request returns (timers
\* fire, http.Client.Timeout is 60 s)
SpecClientFair == SpecClient /\ WF_vars(DoWithRetry)

\* the exporter over an inventory that no merge changes: the inventory is one
\* that committed merges of an earlier day and of today leave
RECURSIVE RecordDomains(_, _, _, _, _)
RecordDomains(rows, source, batch, i, today) ==
    IF i > Len(batch) THEN rows
    ELSE LET found == SelectDomain(rows, batch[i].Domain, source)
         IN RecordDomains(IF found = {}
                          THEN InsertDomain(rows, batch[i], source, today)
                          ELSE UpdateDomain(rows, CHOOSE id \in found : TRUE, batch[i], today),
                          source, batch, i + 1, today)

\* the domains table after a MergeDomains call that committed
MergedDomains(rows, source, batch, today) ==
    IF batch = <<>> THEN rows
    ELSE SweepDomains(RecordDomains(rows, source, batch, 1, today), source, today)

RECURSIVE RecordDNSRecords(_, _, _, _, _)
RecordDNSRecords(rows, source, batch, i, today) ==
    IF i > Len(batch) THEN rows
    ELSE LET found == SelectDNSRecord(rows, batch[i], source)
         IN RecordDNSRecords(IF found = {}
                             THEN InsertDNSRecord(rows, batch[i], source, today)
                             ELSE UpdateDNSRecord(rows, CHOOSE id \in found : TRUE, batch[i], today),
                             source, batch, i + 1, today)

\* the dns_records table after a MergeDNSRecords call that committed
MergedDNSRecords(rows, source, batch, today) ==
    LET recorded == RecordDNSRecords(rows, source, batch, 1, today)
        seenDomains == {batch[i].Domain : i \in 1..Len(batch)}
    IN {IF \E domain \in seenDomains : r \in DNSSweepMatch(recorded, source, domain, today)
        THEN [r EXCEPT !.status = "removed"] ELSE r : r \in recorded}

ExportDomains ==
    [s \in Sources |-> {d \in DomainUniverse(s) : d.ExpiryDate = NoExpiry}]
ExportDNS == {r \in DNSUniverse : r.Domain = "a.com"}
ExportBatches(U) == UNION {[1..n -> U] : n \in 0..MaxBatch}

\* the inventory after each source merged one batch of domains and Cloudflare
\* one batch of records on that day
MergedOn(db, today, g, c, r) ==
    [domains |-> MergedDomains(MergedDomains(db.domains, "GoDaddy", g, today),
                               "Cloudflare", c, today),
     dns_records |-> MergedDNSRecords(db.dns_records, "Cloudflare", r, today)]

Inventories(today) ==
    UNION {{MergedOn(MergedOn(EmptyDB, today - 1, g, c, r), today, g2, <<>>, r2) :
              g2 \in ExportBatches(ExportDomains["GoDaddy"]), r2 \in ExportBatches(ExportDNS)} :
           g \in ExportBatches(ExportDomains["GoDaddy"]),
           c \in ExportBatches(ExportDomains["Cloudflare"]),
           r \in ExportBatches(ExportDNS)}

InitExport ==
    /\ InitLock
    /\ day = 1 /\ now = 0 /\ tx = NoTx
    /\ \E db \in Inventories(day) : domains = db.domains /\ dns_records = db.dns_records
    /\ client = NoCall
    /\ listing = NoCall
    /\ export = NewExporter

NextExport ==
    \/ Tick
    \/ ExportAll_Domains
    \/ ExportAll_Subdomains
    \/ ExportAll_Removed
    \/ ExportAll_Metadata

SpecExport == InitExport /\ [][NextExport]_vars

\* the exports of two runs over one directory, beside the domain merges of
\* the run that has not yet reached its export
InitWriters ==
    /\ InitLock /\ InitMergeIdle
    /\ client = NoCall
    /\ listing = NoCall
    /\ export = NewWriters

NextWriters ==
    \/ MergeDomains([s \in {x \in Sources : export.w[x].pc = "idle"} |-> ExportDomains[s]])
    \/ Commit
    \/ MergeReturn
    \/ \E s \in Sources :
          \/ ExportAll_Enter(s)
          \/ ExportAll_Query(s)
          \/ updateMetadata_ReadFile(s)
          \/ writeJSON_Create(s)
          \/ writeJSON_Encode(s)
          \/ ExportAll_Error(s)

SpecWriters == InitWriters /\ [][NextWriters]_vars

(***************************************************************************)
(* Properties of the sync lock                                              *)
(***************************************************************************)

\* C1: within one process, whatever the interleaving of cron ticks and manual
\* triggers, sync_status never holds two rows with status = 'running' for the
\* same collector_name.
C1_AtMostOneRunningRow ==
    \A c \in Collectors : Cardinality(RunningRows(c)) <= 1

\* a scheduled run holds the lock while a manual trigger of the same
\* collector went through TryAcquire and was turned away
C1_Witness ==
    \E t1, t2 \in Tasks :
        /\ t1 # t2 /\ task[t1].coll = task[t2].coll
        /\ task[t1].pc = "run" /\ task[t1].trigger = "scheduled"
        /\ task[t2].pc = "done" /\ task[t2].trigger = "manual"

\* runs (collect + merge) of collector c that hold the lock, over all processes
RunsInProgress(c) ==
    {t \in Tasks : task[t].coll = c /\ task[t].pc \in {"run", "release"}}

\* C2: at most one run of a collector is in progress at any instant, also
\* across processes that share the database.
C2_AtMostOneRunAcrossProcesses ==
    \A c \in Collectors : Cardinality(RunsInProgress(c)) <= 1

\* two trigger requests for the same registered collector are being handled
\* at the same time and nothing else has ever touched that collector
ConcurrentTriggers(t1, t2) ==
    /\ t1 # t2
    /\ task[t1].coll = task[t2].coll /\ task[t1].coll \in Collectors
    /\ task[t1].hpc \in {"check", "trigger", "respond"}
    /\ task[t2].hpc \in {"check", "trigger", "respond"}
    /\ \A u \in Tasks \ {t1, t2} : task[u].coll # task[t1].coll

\* C3: of two concurrent POST /sync/trigger/{name} for the same idle
\* collector, one is answered 202 and the other 409: never both 202.
C3_OneAcceptedOneConflict ==
    \A t1, t2 \in Tasks :
        ConcurrentTriggers(t1, t2) => ~(task[t1].resp = 202 /\ task[t2].resp = 202)

(***************************************************************************)
(* Properties of the reconciler                                             *)
(***************************************************************************)
MergeDone(fn) == tx.pc = "returned" /\ tx.fn = fn /\ tx.err = NoErr
BatchNames == {tx.batch[i].Domain : i \in 1..Len(tx.batch)}
BatchSignatures ==
    {<<tx.batch[i].Domain, tx.batch[i].Subdomain, tx.batch[i].RecordType, tx.batch[i].Data>> :
        i \in 1..Len(tx.batch)}
Signature(r) == <<r.domain, r.subdomain, r.record_type, r.data>>

\* C4: after a successful MergeDomains(src, Batch), for every domain of Batch
\* the store holds exactly one row (name, src), active, with last_seen = today.
C4_BatchDomainsActiveToday ==
    MergeDone("MergeDomains") =>
        \A n \in BatchNames :
            LET rows == {r \in domains : r.domain = n /\ r.registrar = tx.source}
            IN /\ Cardinality(rows) = 1
               /\ \A r \in rows : r.status = "active" /\ r.last_seen = tx.today

\* a successful merge whose batch names one domain twice, the row of which
\* was removed before the call
C4_Witness ==
    /\ MergeDone("MergeDomains")
    /\ Len(tx.batch) = 2 /\ tx.batch[1].Domain = tx.batch[2].Domain
    /\ \E r \in tx.pre.domains :
          /\ r.domain = tx.batch[1].Domain /\ r.registrar = tx.source
          /\ r.status = "removed"

\* C5: after a successful MergeDomains(src, Batch), every row that was active
\* with source src before the call and is not named in Batch is removed.
C5_AbsentDomainsRemoved ==
    MergeDone("MergeDomains") =>
        \A r \in tx.pre.domains :
            (r.registrar = tx.source /\ r.status = "active" /\ r.domain \notin BatchNames)
            => \E q \in domains : q.id = r.id /\ q.status = "removed"

\* C6: after a successful MergeDNSRecords(src, Batch), every row that was
\* active with source src, whose parent domain occurs in Batch and whose
\* signature does not, is removed.
C6_AbsentRecordsRemoved ==
    MergeDone("MergeDNSRecords") =>
        \A r \in tx.pre.dns_records :
            (/\ r.source = tx.source /\ r.status = "active"
             /\ r.domain \in BatchNames /\ Signature(r) \notin BatchSignatures)
            => \E q \in dns_records : q.id = r.id /\ q.status = "removed"

\* C7: MergeDNSRecords leaves every DNS row whose parent domain is not the
\* domain of a record of Batch as it was, in the transaction and once
\* committed.
C7_OtherParentsUntouched ==
    (tx.pc # "none" /\ tx.fn = "MergeDNSRecords") =>
        \A r \in tx.pre.dns_records :
            r.domain \notin BatchNames =>
                /\ r \in dns_records
                /\ tx.pc \in {"loop", "sweep", "commit"} => r \in tx.view.dns_records

\* a successful DNS merge that tombstoned a row of a batch domain while an
\* older active row of the same source under another parent stayed active
C7_Witness ==
    /\ MergeDone("MergeDNSRecords")
    /\ \E r, q \in tx.pre.dns_records :
          /\ r.source = tx.source /\ r.domain \notin BatchNames
          /\ r.status = "active" /\ r.last_seen < tx.today
          /\ q.source = tx.source /\ q.domain \in BatchNames /\ q.status = "active"
          /\ [q EXCEPT !.status = "removed"] \in dns_records

\* rows of a table keep id, identity and discovery_date; rows that are new
\* carry the today of the merge that commits them
WriteOnce(old, new, today) ==
    /\ \A r \in old : \E q \in new : q.id = r.id /\ q.discovery_date = r.discovery_date
    /\ \A q \in new : (\A r \in old : r.id # q.id) => q.discovery_date = today

\* C8: discovery_date is write-once: a step keeps the discovery_date of every
\* Domain and DNS row, and a row that appears carries the today of its merge.
C8_DiscoveryDateWriteOnce ==
    [][/\ WriteOnce(domains, domains', tx.today)
       /\ WriteOnce(dns_records, dns_records', tx.today)]_vars

\* a DNS row first inserted on an earlier day, tombstoned, and re-activated
\* by the merge that just returned, next to a domain row that was updated
C8_Witness ==
    /\ MergeDone("MergeDNSRecords")
    /\ \E r \in tx.pre.dns_records :
          /\ r.status = "removed" /\ r.discovery_date < tx.today
          /\ [r EXCEPT !.status = "active", !.last_seen = tx.today] \in dns_records
    /\ \E r \in domains : r.discovery_date < r.last_seen

\* C9: every Domain row and every DNS row has discovery_date <= last_seen.
C9_DiscoveryNotAfterLastSeen ==
    \A r \in domains \cup dns_records \cup tx.view.domains \cup tx.view.dns_records :
        r.discovery_date <= r.last_seen

\* committed rows of both tables that were seen again after their discovery
C9_Witness ==
    /\ \E r \in domains : r.discovery_date < r.last_seen
    /\ \E r \in dns_records : r.discovery_date < r.last_seen

\* C10: a merge is all-or-nothing: while it runs and after it returned an
\* error, the committed inventory is the one the call found.
C10_AllOrNothing ==
    /\ tx.pc \in {"loop", "sweep", "commit"} => Committed = tx.pre
    /\ (tx.pc = "returned" /\ tx.err # NoErr) => Committed = tx.pre

\* a merge into a non-empty inventory failed at its commit, after its loop
\* and its sweep had written
C10_Witness ==
    /\ tx.pc = "returned" /\ tx.err = "commit transaction"
    /\ \E r \in tx.pre.domains \cup tx.pre.dns_records :
          r.status = "active" /\ r.last_seen < tx.today

(***************************************************************************)
(* Properties of a whole run                                                *)
(***************************************************************************)
\* the run of slot t took the lock (its sync_status row exists)
Acquired(t) == \E r \in sync_status : r.id = t

\* RunCollector of slot t has returned
Returned(t) == Acquired(t) /\ task[t].pc \in {"release", "export", "done"}

\* RunCollector of slot t has returned nil
Succeeded(t) == Returned(t) /\ task[t].syncErr = NoErr

\* len(result.Domains) + len(result.DNSRecords)
Found(result) == Len(result.Domains) + Len(result.DNSRecords)

\* C11: when a run fails because a merge returned an error, the inventory is
\* the one the run found when it started, also when MergeDNSRecords fails
\* after MergeDomains succeeded.
C11_FailedMergeLeavesInventory ==
    \A t \in Tasks :
        (task[t].pc = "release" /\ task[t].syncErr \in {"merge domains", "merge DNS records"})
        => Committed = task[t].run.pre

\* a table without the columns a re-sighting refreshes
SansLastSeen(rows) == {[r EXCEPT !.last_seen = 0] : r \in rows}

\* the inventory db holds the N records of the result, each as one row that
\* is active and was never touched after its insertion, and nothing else
FirstRunInventory(db, result, source) ==
    /\ Cardinality(db.domains) = Len(result.Domains)
    /\ Cardinality(db.dns_records) = Len(result.DNSRecords)
    /\ \A i \in 1..Len(result.Domains) :
          \E d \in db.domains :
             /\ d.domain = result.Domains[i].Domain /\ d.registrar = source
             /\ d.status = "active" /\ d.discovery_date = d.last_seen
    /\ \A i \in 1..Len(result.DNSRecords) :
          \E r \in db.dns_records :
             /\ Signature(r) = <<result.DNSRecords[i].Domain, result.DNSRecords[i].Subdomain,
                                 result.DNSRecords[i].RecordType, result.DNSRecords[i].Data>>
             /\ r.source = source
             /\ r.status = "active" /\ r.discovery_date = r.last_seen

\* RunCollector of slot t returned nil and runCollector has not returned yet
JustSucceeded(t) == Succeeded(t) /\ task[t].pc \in {"release", "export"}

\* C12: a first run on an empty inventory against an upstream of N distinct
\* records reports added = N, updated = 0, removed = 0 and leaves those N
\* rows; a second run against the same upstream reports added = 0,
\* updated = N, removed = 0 and changes nothing but last_seen.
C12_SecondRunOnlyUpdates ==
    \A t \in Tasks :
        JustSucceeded(t) =>
            LET result == task[t].run.result
                source == Source(task[t].coll)
            IN /\ task[t].run.pre = EmptyDB
                  => /\ task[t].run.stats = [Added |-> Found(result), Updated |-> 0, Removed |-> 0]
                     /\ task[t].pc = "release" => FirstRunInventory(Committed, result, source)
               /\ (task[t].run.pre # EmptyDB /\ FirstRunInventory(task[t].run.pre, result, source))
                  => /\ task[t].run.stats = [Added |-> 0, Updated |-> Found(result), Removed |-> 0]
                     /\ task[t].pc = "release" =>
                           /\ SansLastSeen(domains) = SansLastSeen(task[t].run.pre.domains)
                           /\ SansLastSeen(dns_records) = SansLastSeen(task[t].run.pre.dns_records)

\* a second run, a day after the first, against the same upstream of two
\* domains and two records
C12_Witness ==
    \E t \in Tasks :
        /\ task[t].pc = "release" /\ task[t].syncErr = NoErr
        /\ task[t].run.pre # EmptyDB
        /\ FirstRunInventory(task[t].run.pre, task[t].run.result, Source(task[t].coll))
        /\ Found(task[t].run.result) = 4
        /\ task[t].run.stats.Updated = 4
        /\ \A r \in domains \cup dns_records : r.discovery_date < r.last_seen

\* the parent domains of the records of a result
RecordParents(result) == {result.DNSRecords[i].Domain : i \in 1..Len(result.DNSRecords)}

\* the domains a result lists
ResultNames(result) == {result.Domains[i].Domain : i \in 1..Len(result.Domains)}

\* C13: when a successful sync of source S on a later day still returns
\* domain D but no DNS record of D, every DNS row of (S, D) that was active is
\* removed with its last_seen unchanged, and the Domain row of D is active
\* with last_seen on the new day.
C13_RecordlessDomainTombstonesRecords ==
    \A t \in Tasks :
        (task[t].pc = "release" /\ task[t].syncErr = NoErr) =>
            \A D \in ResultNames(task[t].run.result) \ RecordParents(task[t].run.result) :
                \A r \in task[t].run.pre.dns_records :
                    (r.source = Source(task[t].coll) /\ r.domain = D /\ r.status = "active")
                    => \E d \in domains :
                          /\ d.domain = D /\ d.registrar = r.source /\ d.status = "active"
                          /\ d.last_seen > r.last_seen
                             => [r EXCEPT !.status = "removed"] \in dns_records

\* index of the first domain whose record fetch returned ErrQuotaExceeded
QuotaIndex(up) ==
    LET hit == {i \in 1..Len(up.doms) : up.fetch[i].kind = "quota"}
    IN IF hit = {} THEN 0 ELSE CHOOSE i \in hit : \A j \in hit : i <= j

\* the domains enumerated before position k / from position k on
Before(up, k) == {up.doms[j] : j \in 1..(k - 1)}
FromOn(up, k) == {up.doms[j] : j \in k..Len(up.doms)}

\* slot t is past Collect, which met the quota at some domain
QuotaRun(t) ==
    /\ task[t].pc \in {"mergeDomains", "inMergeDomains", "mergeDNS", "inMergeDNS",
                       "release", "export"}
    /\ task[t].run.entered
    /\ QuotaIndex(task[t].run.up) > 0

C15_ReleaseOnEveryExit ==
    \A t \in Tasks :
        (Acquired(t) /\ task[t].pc \in {"export", "done", "crashed"})
        => /\ task[t].released # "no"
           /\ \A r \in sync_status : r.id = t => r.status # "running"

\* C16: a run whose context is cancelled while it holds the lock ends with
\* its row updated to status = 'failed' and the lock released in both layers.
C16_CancelledRunRecordedFailed ==
    [][\A t \in Tasks :
          (task[t].pc = "release" /\ task[t].ctxDone /\ task'[t].pc # "release")
          => /\ \E r \in sync_status' : r.id = t /\ r.status = "failed"
             /\ ~mutex'[t[1]][task[t].coll]]_vars

(***************************************************************************)
(* Properties of the scheduler                                              *)
(***************************************************************************)
\* a running row older than the cutoff, as stale-lock recovery leaves it
Recovered(r) == [r EXCEPT !.status = "failed",
                          !.error_message = "Process terminated unexpectedly"]

\* C17: once Scheduler.Start has performed stale-lock recovery, no row is
\* running with started_at < now - 2h: each such row became failed with
\* "Process terminated unexpectedly"; younger running rows and all completed
\* or failed rows are unchanged.
C17_StaleRunsRecovered ==
    [][\A p \in Procs :
          (sched[p].pc = "crashed" /\ sched'[p].pc = "started" /\ ~sched'[p].cleanupErr)
          => /\ \A r \in sync_status' :
                   ~(r.status = "running" /\ r.started_at < now - MaxStaleAge)
             /\ \A r \in sync_status :
                   IF r.status = "running" /\ r.started_at < now - MaxStaleAge
                   THEN Recovered(r) \in sync_status'
                   ELSE r \in sync_status'
             /\ Cardinality(sync_status') = Cardinality(sync_status)]_vars

\* after a restart: a recovered row, next to a younger row that still runs
\* and a row that had completed
C17_Witness ==
    /\ sched["p1"].pc = "started" /\ ~sched["p1"].cleanupErr
    /\ \E r, y, c \in sync_status :
          /\ r.status = "failed" /\ r.error_message = "Process terminated unexpectedly"
          /\ y.status = "running" /\ y.started_at > r.started_at
          /\ c.status = "completed"

\* slot t leaves the position it is at
Moves(t) == task'[t].pc # task[t].pc

\* C18: a cron tick or manual trigger for a collector whose lock is held
\* never blocks: TryAcquire can always take its step, and the step ends
\* runCollector with no Collect, no new sync_status row and the inventory,
\* committed or in a transaction, as it was.
C18_HeldLockDropsTheTick ==
    /\ [](\A t \in RunTasks : task[t].pc = "tryacquire" => ENABLED TryAcquire_TryLock(t))
    /\ [][\A t \in Tasks :
            (/\ Moves(t)
             /\ \/ task[t].pc = "tryacquire" /\ mutex[t[1]][task[t].coll]
                \/ task[t].pc = "select" /\ RunningRows(task[t].coll) # {})
            => /\ task'[t].pc = "done"
               /\ task'[t].run = NoRun
               /\ UNCHANGED <<sync_status, domains, dns_records, tx>>]_vars

\* a manual trigger answered 202 whose goroutine was turned away while a
\* scheduled run of the same collector was in the middle of a merge
C18_Witness ==
    \E h, t \in Tasks :
        /\ task[h].trigger = "scheduled" /\ task[h].pc = "inMergeDNS"
        /\ tx.pc = "commit" /\ tx.view.dns_records # dns_records
        /\ task[t].trigger = "manual" /\ task[t].resp = 202
        /\ task[t].coll = task[h].coll /\ task[t].pc = "done" /\ ~Acquired(t)

\* every domain and record of the result is an active row of the source
Merged(t) ==
    /\ \A n \in ResultNames(task[t].run.result) :
          \E d \in domains :
             d.domain = n /\ d.registrar = Source(task[t].coll) /\ d.status = "active"
    /\ \A i \in 1..Len(task[t].run.result.DNSRecords) :
          \E r \in dns_records :
             /\ Signature(r) = <<task[t].run.result.DNSRecords[i].Domain,
                                 task[t].run.result.DNSRecords[i].Subdomain,
                                 task[t].run.result.DNSRecords[i].RecordType,
                                 task[t].run.result.DNSRecords[i].Data>>
             /\ r.source = Source(task[t].coll) /\ r.status = "active"

ResultSignatures(result) ==
    {<<result.DNSRecords[i].Domain, result.DNSRecords[i].Subdomain,
       result.DNSRecords[i].RecordType, result.DNSRecords[i].Data>> :
        i \in 1..Len(result.DNSRecords)}

\* C20: after any sequence of syncs, a Domain or DNS row is active exactly
\* when it was present in the result of the most recent successful sync of
\* its source, also when that sync returned an empty list.
C20_StatusMirrorsLatestSync ==
    \A t \in Tasks :
        (task[t].pc = "release" /\ task[t].syncErr = NoErr) =>
            /\ \A d \in domains :
                  d.registrar = Source(task[t].coll)
                  => (d.status = "active" <=> d.domain \in ResultNames(task[t].run.result))
            /\ \A r \in dns_records :
                  r.source = Source(task[t].coll)
                  => (r.status = "active" <=> Signature(r) \in ResultSignatures(task[t].run.result))

(***************************************************************************)
(* Properties of the collectors                                             *)
(***************************************************************************)

\* the names of UpstreamNames that are no test domains by the rule of the
\* filter: lowercased and trimmed, neither on the blocklist nor starting with
\* a test prefix
KeptNames == {n_mycorp_com, n_testing_com}

\* the named entries the upstream has returned to a listing that has ended
UpstreamReturned ==
    IF listing.collector = "godaddy_dns"
    THEN listing.seen
    ELSE {listing.up[i] : i \in 1..Len(listing.up)} \ {<<>>}

\* C21: a domain the upstream returned is in the result handed to the
\* reconciler iff its lowercased, trimmed name is neither on the blocklist
\* nor starts with a test prefix, and record fetches are made for such
\* domains only
C21_OnlyRealDomainsMerged ==
    /\ listing.pc \in {"fetch", "returned"}
        => /\ Range(listing.Domains) = UpstreamReturned \cap KeptNames
           /\ \A n \in UpstreamReturned :
                 n \in Range(listing.Domains) <=> ~IsTestDomain(n)
    /\ listing.pc # "idle" => Range(listing.fetched) \subseteq KeptNames

C21_Witness ==
    /\ listing.pc = "returned"
    /\ listing.collector = "godaddy_dns"
    /\ listing.up = <<n_example_com, n_mycorp_com, n_test_internal_io>>
    /\ listing.Domains = <<n_mycorp_com>>
    /\ listing.fetched = <<n_mycorp_com>>

\* C30: the marker sent with the request for page k+1 is the last domain of
\* page k as the upstream returned it, and a further page is requested only
\* after a full page
C30_MarkerIsLastOfPage ==
    (listing.pc = "list" /\ listing.marker # <<>>)
        => /\ Len(listing.page) = listing.limit
           /\ listing.marker = listing.page[Len(listing.page)]

(***************************************************************************)
(* Properties of the fetch client                                           *)
(***************************************************************************)
\* C25: one DoWithRetry call sends at most MaxRetries requests
C25_AtMostMaxRetriesRequests ==
    client.pc # "idle" => client.requests <= client.maxRetries

\* what a response is by the precedence: rate limit, then the QUOTA_EXCEEDED
\* body, then 404, then 2xx, then the other 4xx, then the rest
ResponseClass(r) ==
    CASE r.status = 429 \/ r.tooMany -> "rate limited"
      [] r.status # 429 /\ ~r.tooMany /\ r.quota -> "quota exceeded"
      [] r.status = 404 /\ ~r.tooMany /\ ~r.quota -> "not found"
      [] r.status \in 200..299 /\ ~r.tooMany /\ ~r.quota -> "ok"
      [] r.status \in (400..499) \ {404, 429} /\ ~r.tooMany /\ ~r.quota -> "HTTP"
      [] OTHER -> "server error"

Answered == client.last.kind = "response"

\* C26 as stated: after a 404, another 4xx that is not 429, or a body with
\* QUOTA_EXCEEDED, the call has returned NotFound, a client error or
\* QuotaExceeded; after a 5xx or a transport error with attempts left it
\* goes on to another request
C26_PermanentFailuresNotRetried ==
    LET r == client.last
    IN /\ (Answered /\ (r.status = 404 \/ r.status \in (400..499) \ {429} \/ r.quota))
            => /\ client.pc = "returned"
               /\ client.ret.kind \in
                     (IF r.status = 404 THEN {"not found"} ELSE {})
                     \cup (IF r.status \in (400..499) \ {404, 429} THEN {"HTTP"} ELSE {})
                     \cup (IF r.quota THEN {"quota exceeded"} ELSE {})
       /\ ((r.kind = "transport" \/ (Answered /\ r.status >= 500))
              /\ client.attempt <= client.maxRetries)
            => client.pc \in {"backoff", "do"}

\* C26, amended: a response classified (rate limit first) as QuotaExceeded,
\* NotFound or client error ends the call with that error; after a response
\* classified as a server error, or a transport error, with attempts left
\* and the context not cancelled, the call goes on to another request
C26_ClassifiedFailuresNotRetried ==
    LET r == client.last
    IN /\ (Answered /\ ResponseClass(r) \in {"quota exceeded", "not found", "HTTP"})
            => /\ client.pc = "returned"
               /\ client.ret.kind = ResponseClass(r)
       /\ ((r.kind = "transport" \/ (Answered /\ ResponseClass(r) = "server error"))
              /\ client.attempt <= client.maxRetries /\ ~client.ctxDone)
            => client.pc \in {"backoff", "do"}

C26_Witness ==
    /\ client.pc = "returned"
    /\ client.ret.kind = "HTTP"
    /\ client.last.status = 400
    /\ client.requests = 2

\* C27: every DoWithRetry call returns, after at most MaxRetries + 1
\* requests; when the last answer was a rate limit and nobody cancelled, the
\* error returned wraps the rate-limited error
C27_EveryCallTerminates ==
    /\ <>(client.pc = "returned")
    /\ [](client.requests <= client.maxRetries + 1)
    /\ []((/\ client.pc = "returned"
           /\ Answered /\ ResponseClass(client.last) = "rate limited"
           /\ ~client.ctxDone)
          => client.ret = [kind |-> "max retries exceeded", wraps |-> "rate limited"])

C27_Witness ==
    /\ client.pc = "returned"
    /\ client.maxRetries = 5
    /\ client.requests = 6
    /\ client.last.kind = "response" /\ client.last.status = 429
    /\ client.ret = [kind |-> "max retries exceeded", wraps |-> "rate limited"]

\* C28: a response is handled by its class in the fixed precedence; hence
\* success only for a 2xx whose body holds neither marker, and QuotaExceeded
\* for a 404 whose body holds QUOTA_EXCEEDED
C28_ClassificationPrecedence ==
    /\ [][(client'.requests = client.requests + 1 /\ client'.last.kind = "response")
           => LET class == ResponseClass(client'.last)
              IN IF class = "rate limited" THEN client'.pc = "sleep429"
                 ELSE IF class = "server error"
                 THEN \/ client'.pc = "backoff"
                      \/ /\ client'.pc = "returned"
                         /\ client'.ret.kind = "max retries exceeded"
                 ELSE client'.pc = "returned" /\ client'.ret.kind = class]_vars
    /\ [](client.ret.kind = "ok"
            => /\ Answered
               /\ client.last.status \in 200..299
               /\ ~client.last.tooMany /\ ~client.last.quota)
    /\ []((Answered /\ client.last.status = 404 /\ client.last.quota /\ ~client.last.tooMany)
            => client.ret.kind = "quota exceeded")

C28_Witness ==
    /\ client.pc = "returned"
    /\ client.ret.kind = "quota exceeded"
    /\ client.last.kind = "response"
    /\ client.last.status = 404 /\ client.last.quota

\* C29: a call whose context was cancelled returns the cancellation error,
\* never "max retries exceeded" and never a success
C29_CancelledCallReturnsCancellation ==
    (client.pc = "returned" /\ client.ctxDone) => client.ret.kind = "context"

(***************************************************************************)
(* Properties of the Sync Run rows                                          *)
(***************************************************************************)
\* C23: a row changes status once, from running to completed or failed; a
\* row that is completed or failed is never modified again, and no row is
\* deleted
C23_StatusChangesOnce ==
    [][\A r \in sync_status :
          /\ \E r2 \in sync_status' : r2.id = r.id
          /\ \A r2 \in sync_status' :
                (r2.id = r.id /\ r2 # r)
                    => /\ r.status = "running"
                       /\ r2.status \in {"completed", "failed"}]_vars

\* C24: once Release has unlocked the mutex of a run, the row of that run is
\* no longer running
C24_ReleasedRunLeavesRunning ==
    \A t \in Tasks :
        task[t].released # "no"
            => \A r \in sync_status : r.id = t => r.status # "running"

(***************************************************************************)
(* Properties of the exporter                                               *)
(***************************************************************************)
\* C22: with no merge in between, an ExportAll call that follows a completed
\* one leaves domains.json, subdomains.json and removed.json as that one left
\* them, and metadata.json the same but for its last_updated stamps
C22_ExportIdempotent ==
    [][(/\ export.pc = "metadata" /\ export'.pc = "domains"
        /\ export'.prev.n = 1
        /\ export.prev.n = 1)
       => /\ export'.dir.domains = export.prev.dir.domains
          /\ export'.dir.subdomains = export.prev.dir.subdomains
          /\ export'.dir.removed = export.prev.dir.removed
          /\ export'.dir.metadata.dns.domains.count
                = export.prev.dir.metadata.dns.domains.count
          /\ export'.dir.metadata.dns.subdomains.count
                = export.prev.dir.metadata.dns.subdomains.count]_vars

\* C31: fetchAllDomains never takes the last element of an empty allDomains,
\* and never sends the marker it sent with the request before (the list being
\* fixed, the same request gets the same page without end)
C31_ListingTerminatesWithoutFault ==
    /\ [](listing.pc # "panic")
    /\ [][(listing.pc = "list" /\ listing'.pc = "list") =>
             listing'.marker # listing.marker]_vars

\* slot t is past a Collect that returned its result, the merges included
PastCollect(t) ==
    /\ task[t].pc \in {"mergeDomains", "inMergeDomains", "mergeDNS", "inMergeDNS",
                       "release"}
    /\ task[t].run.entered
    /\ task[t].syncErr # "collector failed"

\* the positions Collect reaches: all, or those up to the quota
Reached(up) ==
    IF QuotaIndex(up) = 0 THEN 1..Len(up.doms) ELSE 1..(QuotaIndex(up) - 1)

Consecutive(log) == \A k \in 1..Len(log) : log[k] = k

\* the pages a listing requests of an upstream that reports total pages
PagesNeeded(total) == IF total >= 1 THEN total ELSE 1

C34_VerificationFailureAborts ==
    \A t \in Tasks :
        task[t].syncErr = "token verification failed" =>
           /\ task[t].pc \in {"release", "done"}
           /\ tx.owner # t
           /\ ~task[t].exportErr
           /\ Committed = EmptyDB
           /\ task[t].pc = "done" =>
                 \E r \in sync_status :
                    /\ r.id = t /\ r.status = "failed"
                    /\ r.error_message = "token verification failed"

(***************************************************************************)
(* Properties of the shutdown                                               *)
(***************************************************************************)
\* C35: once the context of Start is cancelled no cron tick starts a run, and
\* every cron run that is still in progress while Start waits runs with a
\* cancelled context
C35_ShutdownCancelsCronRuns ==
    /\ [][\A t \in Tasks :
            (sched[t[1]].pc # "started" /\ task[t].pc = "idle")
               => task'[t].pc = "idle"]_vars
    /\ [](\A t \in Tasks :
            (sched[t[1]].pc = "stopping" /\ CronRunInProgress(t)) => task[t].ctxDone)

(***************************************************************************)
(* Properties of re-activation and of the sources                           *)
(***************************************************************************)
\* the batch elements that name the row r of the source merged
DomainHits(r) == {i \in 1..Len(tx.batch) : tx.batch[i].Domain = r.domain}
RecordHits(r) ==
    {i \in 1..Len(tx.batch) :
        <<tx.batch[i].Domain, tx.batch[i].Subdomain, tx.batch[i].RecordType, tx.batch[i].Data>>
            = Signature(r)}

\* C36: after a successful merge, a row that was removed before the call and
\* is named in the batch is active with last_seen = today, its id and its
\* discovery_date as before; no other row has its identity; and the batch
\* elements that found a row (stored before or inserted by an earlier element)
\* are counted in updated, the others in added.
C36_RemovedRowReactivated ==
    /\ MergeDone("MergeDomains") =>
          /\ \A r \in tx.pre.domains :
                (r.registrar = tx.source /\ r.status = "removed" /\ DomainHits(r) # {}) =>
                   /\ \E q \in domains :
                         /\ q.id = r.id /\ q.status = "active" /\ q.last_seen = tx.today
                         /\ q.discovery_date = r.discovery_date
                   /\ Cardinality({q \in domains :
                                      q.domain = r.domain /\ q.registrar = r.registrar}) = 1
          /\ tx.stats.Added =
                Cardinality({n \in BatchNames :
                               \A r \in tx.pre.domains :
                                  ~(r.domain = n /\ r.registrar = tx.source)})
          /\ tx.stats.Updated = Len(tx.batch) - tx.stats.Added
    /\ MergeDone("MergeDNSRecords") =>
          /\ \A r \in tx.pre.dns_records :
                (r.source = tx.source /\ r.status = "removed" /\ RecordHits(r) # {}) =>
                   /\ \E q \in dns_records :
                         /\ q.id = r.id /\ q.status = "active" /\ q.last_seen = tx.today
                         /\ q.discovery_date = r.discovery_date
                   /\ Cardinality({q \in dns_records :
                                      Signature(q) = Signature(r) /\ q.source = r.source}) = 1
          /\ tx.stats.Added =
                Cardinality({sig \in BatchSignatures :
                               \A r \in tx.pre.dns_records :
                                  ~(Signature(r) = sig /\ r.source = tx.source)})
          /\ tx.stats.Updated = Len(tx.batch) - tx.stats.Added

\* a merge of [b.com] that found b.com removed: one update, nothing added
C36_Witness ==
    /\ MergeDone("MergeDomains")
    /\ Len(tx.batch) = 1 /\ tx.stats.Added = 0 /\ tx.stats.Updated = 1
    /\ \E r \in tx.pre.domains :
          /\ r.domain = tx.batch[1].Domain /\ r.registrar = tx.source
          /\ r.status = "removed" /\ r.discovery_date < tx.today
          /\ [r EXCEPT !.status = "active", !.last_seen = tx.today] \in domains

\* the rows of the other sources
OtherDomains(rows, source) == {r \in rows : r.registrar # source}
OtherRecords(rows, source) == {r \in rows : r.source # source}

\* C37: from its begin to its return a merge for source src leaves every row
\* of another source as it was, in what it has written in its transaction and
\* in what is committed, also when that row has the name or the signature of
\* a batch element.
C37_OtherSourcesUntouched ==
    tx.pc # "none" =>
        /\ OtherDomains(domains, tx.source) = OtherDomains(tx.pre.domains, tx.source)
        /\ OtherRecords(dns_records, tx.source) = OtherRecords(tx.pre.dns_records, tx.source)
        /\ tx.pc \in {"loop", "sweep", "commit"} =>
              /\ OtherDomains(tx.view.domains, tx.source)
                    = OtherDomains(tx.pre.domains, tx.source)
              /\ OtherRecords(tx.view.dns_records, tx.source)
                    = OtherRecords(tx.pre.dns_records, tx.source)

\* a Cloudflare merge of a.com returned while the GoDaddy row of a.com, last
\* seen on an earlier day, is still active, and so for the record of a.com
C37_Witness ==
    /\ MergeDone("MergeDNSRecords") /\ tx.source = "Cloudflare"
    /\ \E r \in domains :
          /\ r.domain = "a.com" /\ r.registrar = "GoDaddy"
          /\ r.status = "active" /\ r.last_seen < tx.today
    /\ \E r \in domains :
          r.domain = "a.com" /\ r.registrar = "Cloudflare" /\ r.last_seen = tx.today
    /\ \E r \in dns_records :
          /\ r.domain = "a.com" /\ r.source = "GoDaddy"
          /\ r.status = "active" /\ r.last_seen < tx.today
    /\ \E r \in dns_records :
          r.domain = "a.com" /\ r.source = "Cloudflare" /\ r.last_seen = tx.today


(***************************************************************************)
(* Properties of the two layers of the lock                                *)
(***************************************************************************)
\* the call of slot t is inside TryAcquire
InTryAcquire(t) == task[t].pc \in {"tryacquire", "select", "insert"}
\* the in-process mutex of the collector slot t works on
MutexOf(t) == mutex[t[1]][task[t].coll]

\* C38: a TryAcquire that returns without acquiring leaves the mutex of its
\* collector as it found it (held by another call when TryLock failed, free
\* when the SELECT found a running row or failed or the INSERT failed) and
\* sync_status as it was, with no row of this call; a TryAcquire that returns
\* acquired has added exactly one row, its own and running, and the mutex is
\* held. Between TryLock and the return the call holds the mutex and has no row.
C38_TryAcquireOutcomes ==
    /\ [](\A t \in Tasks :
            task[t].pc \in {"select", "insert"} =>
                MutexOf(t) /\ ~(\E r \in sync_status : r.id = t))
    /\ [][\A t \in Tasks :
            /\ (InTryAcquire(t) /\ task'[t].pc = "done") =>
                  /\ sync_status' = sync_status
                  /\ ~(\E r \in sync_status' : r.id = t)
                  /\ mutex'[t[1]][task[t].coll] = (task[t].pc = "tryacquire")
                  /\ task[t].pc = "tryacquire" => MutexOf(t)
            /\ (InTryAcquire(t) /\ task'[t].pc = "run") =>
                  /\ \E r \in sync_status' :
                        /\ sync_status' \ sync_status = {r}
                        /\ r.id = t /\ r.status = "running"
                        /\ r.collector_name = task[t].coll
                  /\ sync_status \subseteq sync_status'
                  /\ mutex'[t[1]][task[t].coll]]_vars

\* one call has acquired (its running row is there, the mutex is held) and a
\* second call for the same collector has returned without a row
C38_Witness ==
    \E t, u \in Tasks :
        /\ t # u /\ task[t].coll = task[u].coll
        /\ task[t].pc = "run" /\ MutexOf(t)
        /\ \E r \in sync_status : r.id = t /\ r.status = "running"
        /\ task[u].pc = "done" /\ task[u].released = "no"
        /\ ~(\E r \in sync_status : r.id = u)


\* collector c has a row with status 'running'
HasRunningRow(c) == \E r \in sync_status : r.collector_name = c /\ r.status = "running"

\* C40: whether a TryAcquire for collector A goes on depends on A alone:
\* TryLock succeeds exactly when A's mutex is free, the SELECT (its statement
\* not failing) lets the call go on exactly when A has no running row, and
\* the INSERT (not failing) then acquires; the mutex and the rows of another
\* collector B are no part of it.
C40_LocksIndependent ==
    \A t \in Tasks :
        /\ task[t].pc = "tryacquire" =>
              ((ENABLED (TryAcquire_TryLock(t) /\ task'[t].pc = "select"))
                  <=> ~MutexOf(t))
        /\ (task[t].pc = "select" /\ ~task[t].ctxDone) =>
              ((ENABLED (TryAcquire_Select(t) /\ task'[t].pc = "insert"))
                  <=> ~HasRunningRow(task[t].coll))
        /\ (task[t].pc = "insert" /\ ~task[t].ctxDone) =>
              ENABLED (TryAcquire_Insert(t) /\ task'[t].pc = "run")

\* runs of two different collectors are in progress at the same time: the
\* second took its lock while the first held its own
C40_Witness ==
    \E t, u \in Tasks :
        /\ task[t].coll # task[u].coll
        /\ task[t].pc = "run" /\ task[u].pc = "run"
        /\ MutexOf(t) /\ MutexOf(u)
        /\ HasRunningRow(task[t].coll) /\ HasRunningRow(task[u].coll)
        /\ \E r \in sync_status : r.id = t /\ r.status = "running"
        /\ \E r \in sync_status : r.id = u /\ r.status = "running"


(***************************************************************************)
(* Properties of concurrent exports                                        *)
(***************************************************************************)
\* C39: once the ExportAll calls of the runs of both collectors have
\* returned nil, each snapshot file holds exactly what one of the two calls
\* wrote to it.
C39_FilesWholeAfterConcurrentExports ==
    (\A s \in Sources : export.w[s].pc = "returned") =>
        \A f \in Range(Files) : \E s \in Sources : export.dir[f] = export.w[s].out[f]

====
